---------------------------- MODULE Spec2Model ----------------------------
(***************************************************************************)
(* ExternalCue audio router: the WASAPI backend's device catalog, its      *)
(* start/stop controller and its pipeline threads, as a state machine.     *)
(*                                                                         *)
(* The control thread runs WasapiBackend::start and WasapiBackend::stop    *)
(* one native call at a time, so that the pipeline threads spawned by an   *)
(* earlier start interleave with it.  Every audio client and every event   *)
(* handle that a start call obtains is tracked from its creation to its    *)
(* release, whether or not the backend still holds a reference to it.      *)
(***************************************************************************)
EXTENDS Integers, Sequences, FiniteSets, TLC

VARIABLES
    endpoints,      \* the platform's active endpoints: [render, capture], sequences of [id, name]
    stop_flag,      \* WasapiBackend.stop_flag
    threads,        \* WasapiBackend.threads: join handles, in push order (roles)
    event_handles,  \* WasapiBackend.event_handles: event handles, in push order
    thr,            \* per role, the pipeline thread spawned for it
    signaled,       \* per role, whether the auto-reset event of the current run is set
    client,         \* per handle, the life of the IAudioClient behind it
    event,          \* per handle, the life of the event object behind it
    lost,           \* kinds of handle that earlier calls dropped while still open
    ctl,            \* the control thread: the call it is in and where
    call,           \* what the latest start/stop call did and returned
    listing,        \* AudioApp.device_entries: the last list enumerate_devices returned
    picked,         \* the entry start's get_entry resolved an ordinal to
    cfg,            \* the formats and channel counts a run's pipelines work with
    listen,         \* the gates listen_a and listen_b
    rb,             \* the Transports rb_a and rb_b: the samples each one holds
    hist,           \* per Transport, what was pushed to it and what its pops returned
    rnd,            \* the render thread's pass over one output buffer
    dev,            \* the endpoint an open_device call negotiates with
    neg,            \* the open_device call: where it is, what it holds and returns
    host,           \* CpalBackend.host: the devices cpal's host lists, in its order
    cpal            \* CpalBackend: active_streams, devices, and the start call in progress

lifecycle_vars == <<stop_flag, threads, event_handles, thr, signaled,
                    client, event, lost, ctl, call>>

catalog_vars == <<listing, picked>>

dsp_vars == <<cfg, listen, rb, hist, rnd>>

neg_vars == <<dev, neg>>

cpal_vars == <<host, cpal>>

vars == <<endpoints, lifecycle_vars, catalog_vars, dsp_vars, neg_vars, cpal_vars>>

-----------------------------------------------------------------------------
(* Bounds of the model *)

\* start calls in one behaviour (each draws fresh handles)
MaxStarts == 2

\* endpoints (render and capture together) the platform lists for the catalog
MaxDevices == 2

\* largest channel count of a negotiated format on the data path
MaxChannels == 2

\* frames a Transport holds (the program's BUFFER_FRAMES is 16384)
RbFrames == 2

\* largest number of frames the device asks for in one output buffer
MaxFrames == 2

-----------------------------------------------------------------------------
(* Catalog: backend.rs DeviceEntry, wasapi_backend.rs enum_devices and     *)
(* enumerate_devices.  Names are sequences of character codes, compared    *)
(* the way String::cmp compares them.                                      *)

Roles == {"a", "b", "out"}

NONE == [none |-> TRUE]

SharedSuffix == <<32, 40, 83, 72, 65, 82, 69, 68, 41>>

ExclusiveSuffix == <<32, 40, 69, 88, 67, 76, 85, 83, 73, 86, 69, 41>>

DeviceEntry(name, id, mode, is_input, is_output) ==
    [name |-> name, device_id |-> id, mode |-> mode,
     is_input |-> is_input, is_output |-> is_output]

\* get_friendly_name returned None for the endpoint
NoName == <<>>

\* Variant of enum_devices that pushes only the Shared entry of a device
RECURSIVE enum_devices_shared(_, _, _)
enum_devices_shared(collection, is_input, is_output) ==
    IF collection = <<>> THEN <<>>
    ELSE LET d == Head(collection)
             display == IF d.name = NoName THEN d.id ELSE d.name
         IN  (IF d.id_ok
              THEN << DeviceEntry(display \o SharedSuffix, d.id, "Shared",
                                  is_input, is_output) >>
              ELSE <<>>)
             \o enum_devices_shared(Tail(collection), is_input, is_output)

\* A device of the collection whose Item or GetId call fails is skipped; one
\* without a readable friendly name is displayed under its id.
RECURSIVE enum_devices(_, _, _)
enum_devices(collection, is_input, is_output) ==
    IF collection = <<>> THEN <<>>
    ELSE LET d == Head(collection)
             display == IF d.name = NoName THEN d.id ELSE d.name
         IN  (IF d.id_ok
              THEN << DeviceEntry(display \o SharedSuffix, d.id, "Shared",
                                  is_input, is_output),
                      DeviceEntry(display \o ExclusiveSuffix, d.id, "Exclusive",
                                  is_input, is_output) >>
              ELSE <<>>)
             \o enum_devices(Tail(collection), is_input, is_output)

RECURSIVE NameLess(_, _)
NameLess(s, t) ==
    IF t = <<>> THEN FALSE
    ELSE IF s = <<>> THEN TRUE
    ELSE IF Head(s) # Head(t) THEN Head(s) < Head(t)
    ELSE NameLess(Tail(s), Tail(t))

RECURSIVE InsertByName(_, _)
InsertByName(e, sorted) ==
    IF sorted = <<>> THEN <<e>>
    ELSE IF NameLess(e.name, Head(sorted).name) THEN <<e>> \o sorted
    ELSE <<Head(sorted)>> \o InsertByName(e, Tail(sorted))

RECURSIVE sort_by_name(_)
sort_by_name(s) ==
    IF s = <<>> THEN <<>>
    ELSE InsertByName(s[Len(s)], sort_by_name(SubSeq(s, 1, Len(s) - 1)))

\* Variant of enumerate_devices that returns the entries in discovery order
enumerate_devices_unsorted(eps) ==
    enum_devices(eps.render, FALSE, TRUE) \o enum_devices(eps.capture, TRUE, FALSE)

enumerate_devices(eps) ==
    sort_by_name(enum_devices(eps.render, FALSE, TRUE)
                 \o enum_devices(eps.capture, TRUE, FALSE))

\* The endpoints of the start/stop runs: one render endpoint "Spk" (id "r0")
\* and one capture endpoint "Mic" (id "c0")
EndpointSets ==
    { [render  |-> << [id |-> <<114, 48>>, name |-> <<83, 112, 107>>, id_ok |-> TRUE] >>,
       capture |-> << [id |-> <<99, 48>>, name |-> <<77, 105, 99>>, id_ok |-> TRUE] >>] }


-----------------------------------------------------------------------------
(* Native handles.  A start call draws its handles fresh: handle <<n, r>>  *)
(* is the one the n-th start call obtained for role r.                     *)

Handles == (1..MaxStarts) \X Roles

\* An audio client is held by start's ClientBundle ("bundle") until it is handed
\* to a pipeline thread ("thread"); Release() on it makes it "released", and a
\* second Release(), or one on a handle long gone, "twice".  An event is held by the bundle until start pushes
\* it to event_handles ("backend"); CloseHandle makes it "closed", a second
\* CloseHandle "twice".  A bundle dropped without a release leaves its handles
\* in state "bundle": ClientBundle has no destructor.
ClientOpen(h) == client[h] \in {"bundle", "thread"}

EventOpen(h) == event[h] \in {"bundle", "backend"}

Release(c, h) ==
    [c EXCEPT ![h] = IF c[h] \in {"bundle", "thread"} THEN "released" ELSE "twice"]

CloseHandle(e, h) ==
    [e EXCEPT ![h] = IF e[h] \in {"bundle", "backend"} THEN "closed" ELSE "twice"]

NoThread == [pc |-> "none", id |-> 0, flow_ok |-> FALSE]

\* A thread that has returned from its closure, not yet joined
Terminated == [pc |-> "done", id |-> 0, flow_ok |-> FALSE]

Alive(r) == thr[r].pc \notin {"none", "done"}

Rates == {44100, 48000}

\* Channel counts of the endpoints' formats (the controller only looks for 0)
ChannelCounts == {0, 2}

\* FormatInfo, as far as start reads it
Formats == [sample_rate : Rates, channels : ChannelCounts]

\* What a call to open_device_shared can return: an error with the client
\* released, or a ClientBundle with the negotiated format.
open_device_shared ==
    { [ok |-> FALSE, client_left |-> FALSE, format |-> NONE] }
    \cup { [ok |-> TRUE, client_left |-> TRUE, format |-> f] : f \in Formats }

\* What a call to open_device_exclusive can return.  An error raised inside
\* try_init returns without releasing the activated client.
open_device_exclusive ==
    { [ok |-> FALSE, client_left |-> FALSE, format |-> NONE],
      [ok |-> FALSE, client_left |-> TRUE, format |-> NONE] }
    \cup { [ok |-> TRUE, client_left |-> TRUE, format |-> f] : f \in Formats }

open_device(mode) ==
    IF mode = "Exclusive" THEN open_device_exclusive ELSE open_device_shared

\* The test of the "Validate format compatibility" block for one input bundle
RateMismatch(b, out) ==
    /\ b.format # NONE
    /\ (b.format.sample_rate # out.format.sample_rate \/ b.format.channels = 0)

-----------------------------------------------------------------------------
(* The control thread *)

NoCall == [op |-> "none", ret |-> "none", prev |-> "none", selected |-> {},
           opened |-> {}, differ |-> FALSE, ne |-> {}, zero |-> {},
           transports |-> 0, spawned |-> {},
           out_cap |-> FALSE, blocked |-> {}]

\* How the call that just ended is remembered by the next one
Outcome(c) ==
    IF c.op = "none" THEN "none"
    ELSE IF c.op = "stop" THEN "stop"
    ELSE IF c.ret = "Ok" THEN "start_ok" ELSE "start_err"

\* WasapiBackend::new: no thread, no event handle, the flag unset
BackendNew ==
    /\ stop_flag = FALSE
    /\ threads = <<>>
    /\ event_handles = <<>>
    /\ thr = [r \in Roles |-> NoThread]
    /\ signaled = [r \in Roles |-> FALSE]
    /\ client = [h \in Handles |-> "none"]
    /\ event = [h \in Handles |-> "none"]
    /\ lost = {}
    /\ ctl = [pc |-> "idle", op |-> "none", n |-> 0]
    /\ call = NoCall

\* No enumerate_devices call was made yet
NoListing == [valid |-> FALSE, entries |-> <<>>]

\* No ordinal was resolved yet
NoPick == [made |-> FALSE, idx |-> 0, ok |-> FALSE, entry |-> NONE]

NoConfig == [none |-> TRUE]

NoHist == [none |-> TRUE]

NoRender == [pc |-> "none"]

NoDevice == [none |-> TRUE]

NotNegotiating == [pc |-> "none"]

\* No open_device call is followed step by step
NoNegotiation ==
    /\ dev = NoDevice
    /\ neg = NotNegotiating

NoHost == [none |-> TRUE]

NoBackend == [pc |-> "none"]

\* The application runs on the WASAPI backend: there is no CpalBackend
NoCpal ==
    /\ host = NoHost
    /\ cpal = NoBackend

\* No pipeline exists: the gates are created false (AudioApp::new), there is
\* no Transport and no render pass
NoPipeline ==
    /\ NoNegotiation
    /\ NoCpal
    /\ cfg = NoConfig
    /\ listen = [a |-> FALSE, b |-> FALSE]
    /\ rb = [a |-> <<>>, b |-> <<>>]
    /\ hist = NoHist
    /\ rnd = NoRender

\* The state after AudioApp::new: the backend is constructed and the catalog
\* was enumerated once
Init ==
    /\ endpoints \in EndpointSets
    /\ BackendNew
    /\ listing = [valid |-> TRUE, entries |-> enumerate_devices(endpoints)]
    /\ picked = NoPick
    /\ NoPipeline

\* Variant of enumerate_devices' caller in which the call stops the run
EnumerateStopping ==
    /\ ctl.pc = "idle"
    /\ listing' = [valid |-> TRUE, entries |-> enumerate_devices(endpoints)]
    /\ stop_flag' = TRUE
    /\ UNCHANGED <<endpoints, neg_vars, cpal_vars, threads, event_handles, thr, signaled, client, event,
                   lost, ctl, call, picked, dsp_vars>>

\* enumerate_devices(&self), called by the application between its start and
\* stop calls, with the pipelines of a run alive or not: COM is initialised,
\* the endpoints are listed and sorted, the list is returned
Enumerate ==
    /\ ctl.pc = "idle"
    /\ listing' = [valid |-> TRUE, entries |-> enumerate_devices(endpoints)]
    /\ UNCHANGED <<endpoints, neg_vars, cpal_vars, lifecycle_vars, picked, dsp_vars>>

\* SetEvent on the event of role r's pipeline: a thread blocked in its wait is
\* released by it, otherwise the auto-reset event stays set.
SetEvent(r) ==
    IF thr[r].pc = "wait"
    THEN /\ thr' = [thr EXCEPT ![r].pc = "work"]
         /\ UNCHANGED signaled
    ELSE /\ signaled' = [signaled EXCEPT ![r] = TRUE]
         /\ UNCHANGED thr

\* A handle somebody can still use: the backend holds it in event_handles, or
\* a pipeline thread that has not returned holds it
Referenced(h) ==
    \/ \E i \in 1..Len(event_handles) : event_handles[i] = h
    \/ Alive(h[2]) /\ thr[h[2]].id = h[1]

\* When the application makes its next call, the handles of earlier calls that
\* nobody can use any more are only counted: those still open go to `lost`
Settle ==
    /\ lost' = lost \cup (IF \E h \in Handles : ~Referenced(h) /\ ClientOpen(h)
                          THEN {"client"} ELSE {})
                    \cup (IF \E h \in Handles : ~Referenced(h) /\ EventOpen(h)
                          THEN {"event"} ELSE {})
    /\ client' = [h \in Handles |->
                    IF Referenced(h) \/ client[h] = "twice" THEN client[h] ELSE "none"]
    /\ event' = [h \in Handles |->
                   IF Referenced(h) \/ event[h] = "twice" THEN event[h] ELSE "none"]

\* stop(), line 839: the flag is stored first
StopBegin ==
    /\ ctl.pc = "idle"
    /\ stop_flag' = TRUE
    /\ ctl' = [ctl EXCEPT !.pc = "drain", !.op = "stop"]
    /\ call' = [NoCall EXCEPT !.op = "stop", !.ret = "pending", !.prev = Outcome(call)]
    /\ Settle
    /\ UNCHANGED <<endpoints, neg_vars, cpal_vars, catalog_vars, dsp_vars, threads, event_handles, thr, signaled>>

\* Variant of the drain loop that closes the handle without setting the event
StopNoWake ==
    /\ ctl.pc = "drain"
    /\ event_handles # <<>>
    /\ ctl' = [ctl EXCEPT !.pc = "close"]
    /\ call' = IF thr[Head(event_handles)[2]].pc = "wait"
               THEN [call EXCEPT !.blocked = @ \cup {Head(event_handles)[2]}]
               ELSE call
    /\ UNCHANGED <<endpoints, neg_vars, cpal_vars, catalog_vars, dsp_vars, stop_flag, threads, event_handles, thr, signaled,
                   client, event, lost>>

\* stop(), line 841: SetEvent on the next drained handle
StopSetEvent ==
    /\ ctl.pc = "drain"
    /\ event_handles # <<>>
    /\ SetEvent(Head(event_handles)[2])
    /\ ctl' = [ctl EXCEPT !.pc = "close"]
    /\ call' = IF thr[Head(event_handles)[2]].pc = "wait"
               THEN [call EXCEPT !.blocked = @ \cup {Head(event_handles)[2]}]
               ELSE call
    /\ UNCHANGED <<endpoints, neg_vars, cpal_vars, catalog_vars, dsp_vars, stop_flag, threads, event_handles, client, event, lost>>

\* stop(), line 842: CloseHandle on it
StopCloseHandle ==
    /\ ctl.pc = "close"
    /\ event' = CloseHandle(event, Head(event_handles))
    /\ event_handles' = Tail(event_handles)
    /\ signaled' = [signaled EXCEPT ![Head(event_handles)[2]] = FALSE]
    /\ ctl' = [ctl EXCEPT !.pc = "drain"]
    /\ UNCHANGED <<endpoints, neg_vars, cpal_vars, catalog_vars, dsp_vars, stop_flag, threads, thr, client, lost, call>>

\* Variant of the join that drops the handle without waiting for the thread
StopJoinDetach ==
    /\ ctl.pc = "drain"
    /\ event_handles = <<>>
    /\ threads # <<>>
    /\ threads' = Tail(threads)
    /\ UNCHANGED <<endpoints, neg_vars, cpal_vars, catalog_vars, dsp_vars, stop_flag, event_handles, thr, signaled, client, event,
                   lost, ctl, call>>

\* stop(), lines 845-847: join blocks until the thread has terminated
StopJoin ==
    /\ ctl.pc = "drain"
    /\ event_handles = <<>>
    /\ threads # <<>>
    /\ thr[Head(threads)].pc = "done"
    /\ threads' = Tail(threads)
    /\ thr' = [thr EXCEPT ![Head(threads)] = NoThread]
    /\ UNCHANGED <<endpoints, neg_vars, cpal_vars, catalog_vars, dsp_vars, stop_flag, event_handles, signaled, client, event, lost, ctl, call>>

\* stop(), line 849, called by the application
StopReturn ==
    /\ ctl.pc = "drain"
    /\ ctl.op = "stop"
    /\ event_handles = <<>>
    /\ threads = <<>>
    /\ ctl' = [ctl EXCEPT !.pc = "idle"]
    /\ call' = [call EXCEPT !.ret = "Ok"]
    /\ UNCHANGED <<endpoints, neg_vars, cpal_vars, catalog_vars, dsp_vars, stop_flag, threads, event_handles, thr, signaled, client, event, lost>>


\* Variant of start that does not stop the running pipelines first
StartBeginAdditive ==
    /\ ctl.pc = "idle"
    /\ ctl.n < MaxStarts
    /\ stop_flag' = FALSE
    /\ ctl' = [pc |-> "body", op |-> "start", n |-> ctl.n + 1]
    /\ call' = [NoCall EXCEPT !.op = "start", !.ret = "pending", !.prev = Outcome(call)]
    /\ Settle
    /\ UNCHANGED <<endpoints, neg_vars, cpal_vars, catalog_vars, dsp_vars, threads, event_handles, thr, signaled>>

\* start(), line 484: any running pipelines are stopped first; stop() stores
\* the flag.  The call draws handles <<n, r>>.
StartBegin ==
    /\ ctl.pc = "idle"
    /\ ctl.n < MaxStarts
    /\ stop_flag' = TRUE
    /\ ctl' = [pc |-> "drain", op |-> "start", n |-> ctl.n + 1]
    /\ call' = [NoCall EXCEPT !.op = "start", !.ret = "pending", !.prev = Outcome(call)]
    /\ Settle
    /\ UNCHANGED <<endpoints, neg_vars, cpal_vars, catalog_vars, dsp_vars, threads, event_handles, thr, signaled>>

\* start(), line 485, once the inner stop() has returned
StartClearFlag ==
    /\ ctl.pc = "drain"
    /\ ctl.op = "start"
    /\ event_handles = <<>>
    /\ threads = <<>>
    /\ stop_flag' = FALSE
    /\ ctl' = [ctl EXCEPT !.pc = "body"]
    /\ UNCHANGED <<endpoints, neg_vars, cpal_vars, catalog_vars, dsp_vars, threads, event_handles, thr, signaled, client, event, lost, call>>

\* The ordinals a caller may pass: every position of the catalog and one past it
Ordinals(entries) == 0..Len(entries)

\* Option<usize>::None for an ordinal
NoOrdinal == -1

\* get_entry: the closure of lines 490-496 (ordinals count from 0)
get_entry(entries, idx) ==
    IF idx = NoOrdinal THEN [ok |-> TRUE, entry |-> NONE]
    ELSE IF idx < Len(entries) THEN [ok |-> TRUE, entry |-> entries[idx + 1]]
    ELSE [ok |-> FALSE, entry |-> NONE]

\* Whether the endpoint behind entry e offers the service role r's thread asks for
FlowOk(e, r) == IF r = "out" THEN e.is_output ELSE e.is_input

\* Some input that was opened negotiated another sample rate than the output
RatesDiffer(got) ==
    \E r \in {"a", "b"} :
        /\ got[r].format # NONE
        /\ got["out"].format # NONE
        /\ got[r].format.sample_rate # got["out"].format.sample_rate

\* The inputs that were opened at another sample rate than the output
RateDiffers(got) ==
    {r \in {"a", "b"} : /\ got[r].format # NONE
                         /\ got["out"].format # NONE
                         /\ got[r].format.sample_rate # got["out"].format.sample_rate}

\* The inputs that were opened with a format of no channel
ZeroChannels(got) ==
    {r \in {"a", "b"} : got[r].format # NONE /\ got[r].format.channels = 0}

\* The return of start with value ret, after the opens in `got` (per role, what
\* its open_device call returned), with the handles left as cl and ev
Return(ret, sel, got, cl, ev, spawned) ==
    /\ ctl' = [ctl EXCEPT !.pc = "idle"]
    /\ client' = cl
    /\ event' = ev
    /\ call' = [call EXCEPT !.ret = ret,
                            !.selected = {r \in Roles : sel[r] # NONE},
                            !.opened = {r \in Roles : got[r].ok /\ got[r].client_left},
                            !.differ = RatesDiffer(got),
                            !.ne = RateDiffers(got),
                            !.zero = ZeroChannels(got),
                            !.out_cap = IF sel["out"] = NONE THEN FALSE
                                        ELSE sel["out"].is_output,
                            !.transports = IF ret = "Ok" THEN 2 ELSE 0,
                            !.spawned = spawned,
                            !.blocked = {}]

\* An error return: `?` or `return Err(..)` drops the locals as they are
Fail(msg, sel, got, cl, ev) ==
    /\ Return(msg, sel, got, cl, ev, {})
    /\ UNCHANGED <<threads, event_handles, thr, signaled>>

\* No open_device call was made for the role, or the call failed cleanly
NotOpened == [ok |-> FALSE, client_left |-> FALSE, format |-> NONE]

\* in_a_bundle / in_b_bundle = None
NoBundle == [ok |-> TRUE, client_left |-> FALSE, format |-> NONE]

HasBundle(o) == o.ok /\ o.client_left

\* The audio clients after this call's opens: a client the open call left
\* activated is held by (or lost from) start's locals
ClientsWith(got) ==
    [h \in Handles |-> IF h[1] = ctl.n /\ got[h[2]].client_left THEN "bundle" ELSE client[h]]

\* The events after this call's opens: each returned bundle carries one
EventsWith(got) ==
    [h \in Handles |-> IF h[1] = ctl.n /\ HasBundle(got[h[2]]) THEN "bundle" ELSE event[h]]

\* The order in which start spawns: capture A, capture B, render
SpawnOrder == <<"a", "b", "out">>

RECURSIVE SelectRoles(_, _)
SelectRoles(order, S) ==
    IF order = <<>> THEN <<>>
    ELSE (IF Head(order) \in S THEN <<Head(order)>> ELSE <<>>) \o SelectRoles(Tail(order), S)

\* Variant of the spawning that starts no thread for input B
SpawnWithoutB(sel, got) ==
    LET S == {r \in Roles : HasBundle(got[r])} \ {"b"}
        order == SelectRoles(SpawnOrder, S)
        mine(h) == h[1] = ctl.n /\ h[2] \in S
    IN  /\ event_handles' = event_handles \o [i \in 1..Len(order) |-> <<ctl.n, order[i]>>]
        /\ thr' = [r \in Roles |->
                     IF r \in S
                     THEN [pc |-> "init", id |-> ctl.n,
                           flow_ok |-> FlowOk(sel[r], r)]
                     ELSE thr[r]]
        /\ signaled' = [r \in Roles |-> FALSE]
        /\ threads' = order
        /\ Return("Ok", sel, got,
                  [h \in Handles |-> IF mine(h) THEN "thread" ELSE ClientsWith(got)[h]],
                  [h \in Handles |-> IF mine(h) THEN "backend" ELSE EventsWith(got)[h]],
                  S)

\* start(), lines 568-835: both ring buffers are created, one thread is spawned
\* per bundle with its event pushed to event_handles, and the join handles are
\* stored in self.threads
Spawn(sel, got) ==
    LET S == {r \in Roles : HasBundle(got[r])}
        order == SelectRoles(SpawnOrder, S)
        mine(h) == h[1] = ctl.n /\ h[2] \in S
    IN  /\ event_handles' = event_handles \o [i \in 1..Len(order) |-> <<ctl.n, order[i]>>]
        /\ thr' = [r \in Roles |->
                     IF r \in S
                     THEN [pc |-> "init", id |-> ctl.n,
                           flow_ok |-> FlowOk(sel[r], r)]
                     ELSE thr[r]]
        /\ signaled' = [r \in Roles |-> FALSE]
        /\ threads' = order
        /\ Return("Ok", sel, got,
                  [h \in Handles |-> IF mine(h) THEN "thread" ELSE client[h]],
                  [h \in Handles |-> IF mine(h) THEN "backend" ELSE event[h]],
                  S)

\* Variant of the validation that compares input A only
ValidateA(sel, got) ==
    IF RateMismatch(got["a"], got["out"])
    THEN Fail("RateMismatchA", sel, got,
              Release(ClientsWith(got), <<ctl.n, "out">>), EventsWith(got))
    ELSE Spawn(sel, got)

\* Variant of the validation that compares input B first, then input A
ValidateBFirst(sel, got) ==
    IF RateMismatch(got["b"], got["out"])
    THEN Fail("RateMismatchB", sel, got,
              Release(ClientsWith(got), <<ctl.n, "out">>), EventsWith(got))
    ELSE IF RateMismatch(got["a"], got["out"])
    THEN Fail("RateMismatchA", sel, got,
              Release(ClientsWith(got), <<ctl.n, "out">>), EventsWith(got))
    ELSE Spawn(sel, got)

\* releases the output's audio client and returns
Validate(sel, got) ==
    IF RateMismatch(got["a"], got["out"])
    THEN Fail("RateMismatchA", sel, got,
              Release(ClientsWith(got), <<ctl.n, "out">>), EventsWith(got))
    ELSE IF RateMismatch(got["b"], got["out"])
    THEN Fail("RateMismatchB", sel, got,
              Release(ClientsWith(got), <<ctl.n, "out">>), EventsWith(got))
    ELSE Spawn(sel, got)

\* The open_device call start makes for an input entry, if one is selected
OpenInput(e) == IF e = NONE THEN {NoBundle} ELSE open_device(e.mode)

\* Variant of the opening sequence that compares input A with the output as
\* soon as both are open, before input B is opened
OpenDevicesEager(sel) ==
    \E o_out \in open_device(sel["out"].mode) :
        LET got1 == [r \in Roles |-> IF r = "out" THEN o_out ELSE NotOpened] IN
        IF ~o_out.ok
        THEN Fail("OpenError", sel, got1, ClientsWith(got1), EventsWith(got1))
        ELSE \E o_a \in OpenInput(sel["a"]) :
            LET got2 == [got1 EXCEPT !["a"] = o_a] IN
            IF ~o_a.ok
            THEN Fail("OpenError", sel, got2, ClientsWith(got2), EventsWith(got2))
            ELSE IF RateMismatch(o_a, o_out)
            THEN Fail("RateMismatchA", sel, got2,
                      Release(ClientsWith(got2), <<ctl.n, "out">>), EventsWith(got2))
            ELSE \E o_b \in OpenInput(sel["b"]) :
                LET got3 == [got2 EXCEPT !["b"] = o_b] IN
                IF ~o_b.ok
                THEN Fail("OpenError", sel, got3, ClientsWith(got3), EventsWith(got3))
                ELSE Validate(sel, got3)

\* start(), lines 521-544: the output is opened, then input A, then input B;
\* `?` returns at the first failure
OpenDevices(sel) ==
    \E o_out \in open_device(sel["out"].mode) :
        LET got1 == [r \in Roles |-> IF r = "out" THEN o_out ELSE NotOpened] IN
        IF ~o_out.ok
        THEN Fail("OpenError", sel, got1, ClientsWith(got1), EventsWith(got1))
        ELSE \E o_a \in OpenInput(sel["a"]) :
            LET got2 == [got1 EXCEPT !["a"] = o_a] IN
            IF ~o_a.ok
            THEN Fail("OpenError", sel, got2, ClientsWith(got2), EventsWith(got2))
            ELSE \E o_b \in OpenInput(sel["b"]) :
                LET got3 == [got2 EXCEPT !["b"] = o_b] IN
                IF ~o_b.ok
                THEN Fail("OpenError", sel, got3, ClientsWith(got3), EventsWith(got3))
                ELSE Validate(sel, got3)

NothingOpened == [r \in Roles |-> NotOpened]

\* start(), lines 488-835, run by the control thread with no pipeline alive:
\* enumerate, resolve the three ordinals, initialise COM, open, validate, spawn
StartBody ==
    /\ ctl.pc = "body"
    /\ \/ Fail("InitError", [r \in Roles |-> NONE], NothingOpened, client, event)
       \/ \E input_a, input_b, output \in Ordinals(enumerate_devices(endpoints)) \cup {NoOrdinal} :
            LET entries == enumerate_devices(endpoints)
                in_a == get_entry(entries, input_a)
                in_b == get_entry(entries, input_b)
                out  == get_entry(entries, output)
                sel  == [r \in Roles |-> CASE r = "a" -> in_a.entry
                                           [] r = "b" -> in_b.entry
                                           [] OTHER -> out.entry]
            IN  IF ~(in_a.ok /\ in_b.ok /\ out.ok)
                THEN Fail("IndexOutOfRange", sel, NothingOpened, client, event)
                ELSE IF out.entry = NONE
                THEN Fail("OutputNotSelected", sel, NothingOpened, client, event)
                ELSE OpenDevices(sel)
    /\ UNCHANGED <<endpoints, neg_vars, cpal_vars, catalog_vars, dsp_vars, stop_flag, lost>>

-----------------------------------------------------------------------------
(* The pipeline threads: the closures spawned at lines 588, 661 and 738.   *)
(* The capture and the render thread have the same control skeleton.       *)

Handle(r) == <<thr[r].id, r>>

\* Variant of the thread's start in which a failed GetService also raises the
\* stop flag
ThreadInitStopsAll(r) ==
    /\ thr[r].pc = "init"
    /\ \/ /\ thr[r].flow_ok
          /\ thr' = [thr EXCEPT ![r].pc = "check"]
          /\ UNCHANGED <<client, stop_flag>>
       \/ /\ client' = Release(client, Handle(r))
          /\ thr' = [thr EXCEPT ![r] = Terminated]
          /\ stop_flag' = TRUE
    /\ UNCHANGED <<endpoints, neg_vars, cpal_vars, catalog_vars, dsp_vars, threads, event_handles, signaled, event, lost, ctl, call>>

\* lines 596-604 (746-754): GetService; on failure the thread releases its
\* audio client and returns, otherwise it starts the device clock.  An
\* endpoint of the wrong data flow has no such service.
ThreadInit(r) ==
    /\ thr[r].pc = "init"
    /\ \/ /\ thr[r].flow_ok
          /\ thr' = [thr EXCEPT ![r].pc = "check"]
          /\ UNCHANGED client
       \/ /\ client' = Release(client, Handle(r))
          /\ thr' = [thr EXCEPT ![r] = Terminated]
    /\ UNCHANGED <<endpoints, neg_vars, cpal_vars, catalog_vars, dsp_vars, stop_flag, threads, event_handles, signaled, event, lost, ctl, call>>

\* line 606 (756): the loop condition loads the stop flag
ThreadCheck(r) ==
    /\ thr[r].pc = "check"
    /\ thr' = [thr EXCEPT ![r].pc = IF stop_flag THEN "exit" ELSE "call"]
    /\ UNCHANGED <<endpoints, neg_vars, cpal_vars, catalog_vars, dsp_vars, stop_flag, threads, event_handles, signaled, client, event, lost, ctl, call>>

\* line 607 (757): WaitForSingleObject(event, 2000) is issued.  On a set event
\* it returns WAIT_OBJECT_0 at once and resets it; on an unset one the thread
\* blocks.  On a handle that has been closed the call's behaviour is undefined:
\* it may fail or time out (the loop continues) or return as if signalled.
ThreadWait(r) ==
    /\ thr[r].pc = "call"
    /\ IF EventOpen(Handle(r))
       THEN IF signaled[r]
            THEN /\ thr' = [thr EXCEPT ![r].pc = "work"]
                 /\ signaled' = [signaled EXCEPT ![r] = FALSE]
            ELSE /\ thr' = [thr EXCEPT ![r].pc = "wait"]
                 /\ UNCHANGED signaled
       ELSE /\ \E next \in {"check", "work"} : thr' = [thr EXCEPT ![r].pc = next]
            /\ UNCHANGED signaled
    /\ UNCHANGED <<endpoints, neg_vars, cpal_vars, catalog_vars, dsp_vars, stop_flag, threads, event_handles, client, event, lost, ctl, call>>

\* line 608 (758): the 2000 ms of a blocked wait elapse; `continue`
ThreadTimeout(r) ==
    /\ thr[r].pc = "wait"
    /\ thr' = [thr EXCEPT ![r].pc = "check"]
    /\ UNCHANGED <<endpoints, neg_vars, cpal_vars, catalog_vars, dsp_vars, stop_flag, threads, event_handles, signaled, client, event, lost, ctl, call>>

\* Variant of the pass after which the thread sets both gates false
ThreadProcessMuting(r) ==
    /\ thr[r].pc = "work"
    /\ thr' = [thr EXCEPT ![r].pc = "check"]
    /\ listen' = [a |-> FALSE, b |-> FALSE]
    /\ UNCHANGED <<endpoints, neg_vars, cpal_vars, catalog_vars, cfg, rb, hist, rnd, stop_flag, threads, event_handles, signaled, client, event, lost, ctl, call>>

\* lines 610-638 (760-817): after WAIT_OBJECT_0 the thread drains (fills) the
\* device buffers; a failed native call only ends the pass.  Then the loop
\* condition is evaluated again.
ThreadProcess(r) ==
    /\ thr[r].pc = "work"
    /\ thr' = [thr EXCEPT ![r].pc = "check"]
    /\ UNCHANGED <<endpoints, neg_vars, cpal_vars, catalog_vars, dsp_vars, stop_flag, threads, event_handles, signaled, client, event, lost, ctl, call>>

\* Variant of the thread's exit path that returns without releasing the client
ThreadExitKeep(r) ==
    /\ thr[r].pc = "exit"
    /\ thr' = [thr EXCEPT ![r] = Terminated]
    /\ UNCHANGED <<endpoints, neg_vars, cpal_vars, catalog_vars, dsp_vars, stop_flag, threads, event_handles, signaled, client,
                   event, lost, ctl, call>>

\* Variant of the thread's exit path that releases the audio client a second
\* time
ThreadExitTwice(r) ==
    /\ thr[r].pc = "exit"
    /\ client' = Release(Release(client, Handle(r)), Handle(r))
    /\ thr' = [thr EXCEPT ![r] = Terminated]
    /\ UNCHANGED <<endpoints, neg_vars, cpal_vars, catalog_vars, dsp_vars, stop_flag, threads, event_handles, signaled, event, lost, ctl, call>>

\* lines 641-645 (820-824): stop the clock, release the service and the client
ThreadExit(r) ==
    /\ thr[r].pc = "exit"
    /\ client' = Release(client, Handle(r))
    /\ thr' = [thr EXCEPT ![r] = Terminated]
    /\ UNCHANGED <<endpoints, neg_vars, cpal_vars, catalog_vars, dsp_vars, stop_flag, threads, event_handles, signaled, event, lost, ctl, call>>

\* The device of a started client sets the client's event when a buffer is
\* ready.  The event is auto-reset and the thread looks at it only in its wait,
\* so a buffer that becomes ready while the thread is busy is seen by it as
\* one that becomes ready as soon as it waits: the signal is delivered then.
DeviceSignal(r) ==
    /\ thr[r].pc = "wait"
    /\ EventOpen(Handle(r))
    /\ SetEvent(r)
    /\ UNCHANGED <<endpoints, neg_vars, cpal_vars, catalog_vars, dsp_vars, stop_flag, threads, event_handles, client, event, lost, ctl, call>>

ThreadStep(r) ==
    \/ ThreadInit(r)
    \/ ThreadCheck(r)
    \/ ThreadWait(r)
    \/ ThreadTimeout(r)
    \/ ThreadProcess(r)
    \/ ThreadExit(r)

StopStep ==
    \/ StopSetEvent
    \/ StopCloseHandle
    \/ StopJoin
    \/ StopReturn

StartStep ==
    \/ StartClearFlag
    \/ StartBody

Next ==
    \/ Enumerate
    \/ StopBegin
    \/ StartBegin
    \/ StopStep
    \/ StartStep
    \/ \E r \in Roles : ThreadStep(r)
    \/ \E r \in Roles : DeviceSignal(r)

Spec == Init /\ [][Next]_vars

-----------------------------------------------------------------------------
(* The catalog on its own: every small set of endpoints, enumerated and     *)
(* resolved against by a backend with no run.                                *)

\* Friendly names "A" and "AB", or none readable
DeviceNames == {<<65>>, <<65, 66>>, NoName}

\* The i-th endpoint of a flow has the id "r<i>" (render) or "c<i>" (capture)
EndpointId(flow, i) == <<(IF flow = "render" THEN 114 ELSE 99), 48 + i>>

\* The collections EnumAudioEndpoints can return for one flow, n devices long
Collections(flow, n) ==
    { [i \in 1..n |-> [id |-> EndpointId(flow, i), name |-> f[i].name, id_ok |-> f[i].id_ok]] :
        f \in [1..n -> [name : DeviceNames, id_ok : BOOLEAN]] }

\* n render and m capture endpoints, MaxDevices at most together
CatalogEndpointSets ==
    UNION { UNION { { [render |-> r, capture |-> c] :
                        r \in Collections("render", n), c \in Collections("capture", m) } :
                    m \in 0..(MaxDevices - n) } :
            n \in 0..MaxDevices }

\* start(), lines 488-500: the catalog is enumerated afresh and the ordinal
\* is resolved in it
Resolve ==
    /\ ctl.pc = "idle"
    /\ \E idx \in Ordinals(enumerate_devices(endpoints)) \cup {NoOrdinal} :
         LET got == get_entry(enumerate_devices(endpoints), idx)
         IN  picked' = [made |-> TRUE, idx |-> idx, ok |-> got.ok, entry |-> got.entry]
    /\ UNCHANGED <<endpoints, neg_vars, cpal_vars, lifecycle_vars, listing, dsp_vars>>

CatalogInit ==
    /\ endpoints \in CatalogEndpointSets
    /\ Len(endpoints.render) + Len(endpoints.capture) <= MaxDevices
    /\ BackendNew
    /\ listing = NoListing
    /\ picked = NoPick
    /\ NoPipeline

CatalogNext ==
    \/ Enumerate
    \/ Resolve

CatalogSpec == CatalogInit /\ [][CatalogNext]_vars

-----------------------------------------------------------------------------
(* The data path: the Transports (ring buffers) and the render thread's     *)
(* pass over one output buffer.  A canonical f32 sample is an integer       *)
(* number of tenths: 3 stands for 0.3.  Sums and products are exact, where  *)
(* the program rounds to the nearest f32.                                   *)

Inputs == {"a", "b"}

\* Tenths per unit of a canonical sample
Den == 10

\* The output formats a negotiation can end with: 32-bit float, and 16-, 32-
\* and 24-bit integer
OutFormats == {"f32", "i16", "i32", "i24"}

\* What start hands to the threads: the output's format and channel count,
\* and in_a_channels / in_b_channels: the channel count of a connected input's
\* format, and 1 for an input with no bundle (`unwrap_or(0).max(1)`)
Configs ==
    { c \in [fmt : OutFormats, channels : 1..MaxChannels,
             in_channels : [Inputs -> 1..MaxChannels], connected : SUBSET Inputs] :
        \A x \in Inputs \ c.connected : c.in_channels[x] = 1 }

\* HeapRb::<f32>::new(BUFFER_FRAMES * in_x_channels)
Capacity(x) == RbFrames * cfg.in_channels[x]

\* Variant of push that overwrites the oldest sample when the buffer is full
push_overwrite(q, s, cap) ==
    IF Len(q) < cap THEN Append(q, s) ELSE Append(Tail(q), s)

\* `let _ = prod.push(s)`: the sample is stored if there is room, otherwise
\* push returns Err and the sample is dropped
push(q, s, cap) ==
    IF Len(q) < cap THEN Append(q, s) ELSE q

\* cons.pop(): the oldest sample, or None on an empty buffer
pop(q) ==
    IF q = <<>> THEN [some |-> FALSE, v |-> 0, rest |-> q]
    ELSE [some |-> TRUE, v |-> Head(q), rest |-> Tail(q)]

\* Variant of the frame's pops that leaves the Transport alone while the gate
\* is false
RECURSIVE PopFrameGated(_, _, _)
PopFrameGated(q, n, use) ==
    IF n = 0 THEN [frame |-> <<>>, rest |-> q, calls |-> 0]
    ELSE IF ~use
    THEN LET more == PopFrameGated(q, n - 1, use)
         IN  [frame |-> <<0>> \o more.frame, rest |-> more.rest, calls |-> more.calls]
    ELSE LET p == pop(q)
             more == PopFrameGated(p.rest, n - 1, use)
         IN  [frame |-> <<(IF p.some THEN p.v ELSE 0)>> \o more.frame,
              rest |-> more.rest, calls |-> 1 + more.calls]

\* `for i in 0..in_x_channels { frame_x[i] = if use_x { cons_x.pop().unwrap_or(0.0) }
\* else { let _ = cons_x.pop(); 0.0 }; }`
RECURSIVE PopFrame(_, _, _)
PopFrame(q, n, use) ==
    IF n = 0 THEN [frame |-> <<>>, rest |-> q, calls |-> 0]
    ELSE LET p == pop(q)
             more == PopFrame(p.rest, n - 1, use)
         IN  [frame |-> <<(IF use /\ p.some THEN p.v ELSE 0)>> \o more.frame,
              rest |-> more.rest, calls |-> 1 + more.calls]

\* The input's sample for output channel ch (from 0): its own channel ch, or
\* its channel 0 when it has fewer channels
Contribution(frame, in_channels, ch) ==
    IF in_channels = 0 THEN 0
    ELSE IF ch < in_channels THEN frame[ch + 1] ELSE frame[1]

\* (a + b).clamp(-1.0, 1.0)
Clamp(m) == IF m < -Den THEN -Den ELSE IF m > Den THEN Den ELSE m

\* `as i16` / `as i32` on a float: the fraction is cut off, towards zero
TruncDiv(n, d) == IF n >= 0 THEN n \div d ELSE -((-n) \div d)

\* f32::round: to the nearest integer, halves away from zero
RoundDiv(n, d) ==
    IF n >= 0 THEN (2 * n + d) \div (2 * d) ELSE -((2 * (-n) + d) \div (2 * d))

I16Scale == 32767

I32Max == 2147483647

\* `(mixed * 2147483647.0) as i32` for the clamped sum c.  The literal is not
\* an f32 and stands for 2^31 = I32Max + 1; the cast saturates.  The product
\* is taken in parts, so that no intermediate value leaves 32 bits.
ScaleI32(c) ==
    LET q == I32Max \div Den
        r == (I32Max % Den) + 1
        mag(n) == n * q + (n * r) \div Den
    IN  IF c >= Den THEN I32Max
        ELSE IF c <= -Den THEN (-I32Max) - 1
        ELSE IF c >= 0 THEN mag(c) ELSE -mag(-c)

\* The value written for the mixed sample m: the sum itself for 32-bit float,
\* the clamped sum scaled and cut to an integer otherwise
Convert(fmt, m) ==
    CASE fmt = "f32" -> m
      [] fmt = "i16" -> TruncDiv(Clamp(m) * I16Scale, Den)
      [] fmt = "i32" -> ScaleI32(Clamp(m))
      [] OTHER -> 0

\* The format branches of the render loop: 24-bit formats have none
Handled(fmt) == fmt \in {"f32", "i16", "i32"}

\* Sample of channel c (from 0) of the frames input x captures
SampleOf(x, c) == IF x = "a" THEN 3 + 5 * c ELSE 4 - 12 * c

\* The first n samples of input x's frames, as the capture thread pushes them
Captured(x, n) == [i \in 1..n |-> SampleOf(x, (i - 1) % cfg.in_channels[x])]

NoFrame == [made |-> FALSE, gate |-> [a |-> FALSE, b |-> FALSE],
            frame_a |-> <<>>, frame_b |-> <<>>,
            a |-> <<>>, b |-> <<>>, out |-> <<>>]

Idle == [pc |-> "idle", frames_avail |-> 0, use |-> [a |-> FALSE, b |-> FALSE],
         f |-> 0, len0 |-> [a |-> 0, b |-> 0], calls |-> [a |-> 0, b |-> 0],
         written |-> 0, allocs |-> {}, last |-> NoFrame]

\* main.rs, update: F9 / F10 flip listen_a / listen_b
Toggle(x) ==
    /\ listen' = [listen EXCEPT ![x] = ~@]
    /\ UNCHANGED <<endpoints, neg_vars, cpal_vars, lifecycle_vars, catalog_vars, cfg, rb, hist, rnd>>

\* Variant of the pass's begin that does not load the gates: the pass works
\* with the values it already holds
RenderBeginCached ==
    /\ rnd.pc = "idle"
    /\ \E frames_avail \in 1..MaxFrames :
         rnd' = [Idle EXCEPT !.pc = "mix", !.frames_avail = frames_avail,
                             !.use = rnd.use,
                             !.allocs = {"frame_a", "frame_b"},
                             !.len0 = [x \in Inputs |-> Len(rb[x])]]
    /\ UNCHANGED <<endpoints, neg_vars, cpal_vars, lifecycle_vars, catalog_vars, cfg, listen, rb, hist>>

\* Render loop, lines 757-778: the event is signalled, the device has room for
\* frames_avail frames and hands out its buffer; the gates are loaded; the
\* scratch frames frame_a and frame_b are allocated (`vec![0.0f32; n]`).
\* rnd.allocs are the heap allocations made in this iteration of the loop.
RenderBegin ==
    /\ rnd.pc = "idle"
    /\ \E frames_avail \in 1..MaxFrames :
         rnd' = [Idle EXCEPT !.pc = "mix", !.frames_avail = frames_avail,
                             !.use = listen,
                             !.allocs = {"frame_a", "frame_b"},
                             !.len0 = [x \in Inputs |-> Len(rb[x])]]
    /\ UNCHANGED <<endpoints, neg_vars, cpal_vars, lifecycle_vars, catalog_vars, cfg, listen, rb, hist>>

\* The frame the render loop mixes from what the pops pa, pb of the two inputs
\* gave
MixFrame(pa, pb) ==
    LET a(ch) == Contribution(pa.frame, cfg.in_channels.a, ch)
        b(ch) == Contribution(pb.frame, cfg.in_channels.b, ch)
    IN  /\ rb' = [a |-> pa.rest, b |-> pb.rest]
        /\ rnd' = [rnd EXCEPT
                     !.f = @ + 1,
                     !.calls = [a |-> @.a + pa.calls, b |-> @.b + pb.calls],
                     !.written = @ + cfg.channels,
                     !.last = [made |-> TRUE, gate |-> listen,
                               frame_a |-> pa.frame, frame_b |-> pb.frame,
                               a |-> [c \in 1..cfg.channels |-> a(c - 1)],
                               b |-> [c \in 1..cfg.channels |-> b(c - 1)],
                               out |-> [c \in 1..cfg.channels |->
                                          Convert(cfg.fmt, a(c - 1) + b(c - 1))]]]

\* Variant of the frame step that pops nothing from a Transport whose gate is
\* false
RenderFrameGated ==
    /\ rnd.pc = "mix"
    /\ Handled(cfg.fmt)
    /\ rnd.f < rnd.frames_avail
    /\ MixFrame(PopFrameGated(rb.a, cfg.in_channels.a, rnd.use.a),
                PopFrameGated(rb.b, cfg.in_channels.b, rnd.use.b))
    /\ UNCHANGED <<endpoints, neg_vars, cpal_vars, lifecycle_vars, catalog_vars, cfg, listen, hist>>

\* Render loop, lines 780-814: one frame of the format's branch.  The pops of
\* both inputs, then one written sample per output channel.
RenderFrame ==
    /\ rnd.pc = "mix"
    /\ Handled(cfg.fmt)
    /\ rnd.f < rnd.frames_avail
    /\ MixFrame(PopFrame(rb.a, cfg.in_channels.a, rnd.use.a),
                PopFrame(rb.b, cfg.in_channels.b, rnd.use.b))
    /\ UNCHANGED <<endpoints, neg_vars, cpal_vars, lifecycle_vars, catalog_vars, cfg, listen, hist>>

\* Render loop, line 817: ReleaseBuffer(frames_avail, 0) after the last frame,
\* or at once for a format without a branch
RenderRelease ==
    /\ rnd.pc = "mix"
    /\ ~Handled(cfg.fmt) \/ rnd.f = rnd.frames_avail
    /\ rnd' = Idle
    /\ UNCHANGED <<endpoints, neg_vars, cpal_vars, lifecycle_vars, catalog_vars, cfg, listen, rb, hist>>

\* A run in which the capture threads have filled the Transports with whole or
\* partial frames, the gates are as the user left them and the render thread
\* is between two passes.  The Transport of an input that is not connected has
\* no producer and is empty.
MixInit ==
    /\ endpoints \in EndpointSets
    /\ BackendNew
    /\ listing = NoListing
    /\ picked = NoPick
    /\ cfg \in Configs
    /\ listen \in [Inputs -> BOOLEAN]
    /\ \E na \in 0..Capacity("a"), nb \in 0..Capacity("b") :
         /\ "a" \notin cfg.connected => na = 0
         /\ "b" \notin cfg.connected => nb = 0
         /\ rb = [a |-> Captured("a", na), b |-> Captured("b", nb)]
    /\ hist = NoHist
    /\ rnd = Idle
    /\ NoNegotiation
    /\ NoCpal

MixNext ==
    \/ \E x \in Inputs : Toggle(x)
    \/ RenderBegin
    \/ RenderFrame
    \/ RenderRelease

MixSpec == MixInit /\ [][MixNext]_vars

\* The same run from the gates as AudioApp::new creates them (main.rs 54-55):
\* both false, so that a gate that is true was toggled
GateInit ==
    /\ MixInit
    /\ listen = [a |-> FALSE, b |-> FALSE]

GateSpec == GateInit /\ [][MixNext]_vars

\* main.rs, update (lines 106-113): the UI thread, which is the one that calls
\* start and stop, flips a gate between two such calls
AppToggle(x) ==
    /\ ctl.pc = "idle"
    /\ Toggle(x)

AppNext ==
    \/ Next
    \/ \E x \in Inputs : AppToggle(x)

\* The backend together with the application's gates
AppSpec == Init /\ [][AppNext]_vars

-----------------------------------------------------------------------------
(* One Transport between its producer (the capture thread) and its consumer *)
(* (the render thread), with a record of every push and pop made.           *)

NoTraffic == [pushed |-> <<>>, popped |-> <<>>]

\* Pushes and pops followed per Transport: enough to fill it and go on
PushLimit(x) == Capacity(x) + 2

PopLimit(x) == Capacity(x) + 1

\* Capture loop, lines 619-634: one sample of the captured packet is pushed.
\* The k-th sample of the stream is the value k.
CapturePush(x) ==
    /\ hist # NoHist
    /\ x \in DOMAIN hist
    /\ Len(hist[x].pushed) < PushLimit(x)
    /\ LET s == Len(hist[x].pushed) + 1
       IN  /\ rb' = [rb EXCEPT ![x] = push(@, s, Capacity(x))]
           /\ hist' = [hist EXCEPT ![x].pushed = Append(@, s)]
    /\ UNCHANGED <<endpoints, neg_vars, cpal_vars, lifecycle_vars, catalog_vars, cfg, listen, rnd>>

\* Render loop, lines 783-784: one pop, `cons.pop().unwrap_or(0.0)`
RenderPop(x) ==
    /\ hist # NoHist
    /\ x \in DOMAIN hist
    /\ Len(hist[x].popped) < PopLimit(x)
    /\ LET p == pop(rb[x])
       IN  /\ rb' = [rb EXCEPT ![x] = p.rest]
           /\ hist' = [hist EXCEPT ![x].popped =
                         Append(@, [some |-> p.some, v |-> IF p.some THEN p.v ELSE 0])]
    /\ UNCHANGED <<endpoints, neg_vars, cpal_vars, lifecycle_vars, catalog_vars, cfg, listen, rnd>>

\* Both Transports as start creates them: empty, sized by the inputs' channel
\* counts.  One input is connected; the other's Transport has no producer and
\* stays empty, whatever is popped from it.
TransportInit ==
    /\ endpoints \in EndpointSets
    /\ BackendNew
    /\ listing = NoListing
    /\ picked = NoPick
    /\ cfg \in {c \in Configs : c.fmt = "f32" /\ c.channels = 1
                                  /\ Cardinality(c.connected) = 1}
    /\ listen = [a |-> TRUE, b |-> TRUE]
    /\ rb = [a |-> <<>>, b |-> <<>>]
    /\ hist = [x \in cfg.connected |-> NoTraffic]
    /\ rnd = NoRender
    /\ NoNegotiation
    /\ NoCpal

TransportNext ==
    \/ \E x \in Inputs : CapturePush(x)
    \/ \E x \in Inputs : RenderPop(x)

TransportSpec == TransportInit /\ [][TransportNext]_vars

-----------------------------------------------------------------------------
(* The capture thread's handling of one native buffer: GetBuffer, the pushes *)
(* toward the Transport, ReleaseBuffer.                                     *)

\* (bits_per_sample, is_float) of an input's negotiated format: 32-bit float,
\* 24-, 16- and 32-bit integer
InFormats ==
    { [bits_per_sample |-> 32, is_float |-> TRUE], [bits_per_sample |-> 24, is_float |-> FALSE],
      [bits_per_sample |-> 16, is_float |-> FALSE], [bits_per_sample |-> 32, is_float |-> FALSE] }

\* `*s as f32 / 32768.0` in tenths (exact for the samples used here)
FromI16(v) == TruncDiv(v * Den, 32768)

\* `*s as f32 / 2147483648.0` in tenths, for samples that are multiples of 2^16
FromI32(v) == TruncDiv((v \div 65536) * Den, 32768)

\* The native sample of channel c (from 0) in a buffer of the format fmt:
\* +0.5 on even channels and -0.5 on odd ones
NativeSample(fmt, c) ==
    LET sign == IF c % 2 = 0 THEN 1 ELSE -1
    IN  IF fmt.is_float THEN sign * 5
        ELSE IF fmt.bits_per_sample = 16 THEN sign * 16384
        ELSE IF fmt.bits_per_sample = 32 THEN sign * 1073741824
        ELSE sign * 4194304

\* The canonical samples the capture loop pushes for a buffer that is not
\* silent: one per native sample for the three formats it has a branch for,
\* none for any other format
Converted(fmt, frames, channels) ==
    LET total == frames * channels
        native(i) == NativeSample(fmt, (i - 1) % channels)
    IN  IF fmt.is_float /\ fmt.bits_per_sample = 32
        THEN [i \in 1..total |-> native(i)]
        ELSE IF ~fmt.is_float /\ fmt.bits_per_sample = 16
        THEN [i \in 1..total |-> FromI16(native(i))]
        ELSE IF ~fmt.is_float /\ fmt.bits_per_sample = 32
        THEN [i \in 1..total |-> FromI32(native(i))]
        ELSE <<>>

\* The Transport after `let _ = prod.push(s)` for each s of samples in turn
RECURSIVE PushAll(_, _, _)
PushAll(q, samples, cap) ==
    IF samples = <<>> THEN q
    ELSE PushAll(push(q, Head(samples), cap), Tail(samples), cap)

NoBuffer == [made |-> FALSE, frames |-> 0, silent |-> FALSE, read |-> FALSE, pushed |-> <<>>]

\* Variant of the buffer step that pushes one zero per frame of a silent buffer
CaptureBufferMono(x) ==
    /\ x \in cfg.connected
    /\ \E frames \in 1..MaxFrames, silent \in BOOLEAN :
         LET channels == cfg.in_channels[x]
             samples == IF silent THEN [i \in 1..frames |-> 0]
                        ELSE Converted(cfg.in_fmt[x], frames, channels)
         IN  /\ rb' = [rb EXCEPT ![x] = PushAll(@, samples, Capacity(x))]
             /\ hist' = [hist EXCEPT ![x] =
                           [made |-> TRUE, frames |-> frames, silent |-> silent,
                            read |-> ~silent /\ samples # <<>>, pushed |-> samples]]
    /\ UNCHANGED <<endpoints, neg_vars, cpal_vars, lifecycle_vars, catalog_vars, cfg, listen, rnd>>

\* Capture loop, lines 613-636: GetBuffer hands out a buffer of `frames` frames,
\* flagged silent or not; the samples are pushed; ReleaseBuffer(frames).
\* hist[x].pushed are the samples push was called with, hist[x].read whether
\* the buffer's data was read.
CaptureBuffer(x) ==
    /\ x \in cfg.connected
    /\ \E frames \in 1..MaxFrames, silent \in BOOLEAN :
         LET channels == cfg.in_channels[x]
             samples == IF silent THEN [i \in 1..(frames * channels) |-> 0]
                        ELSE Converted(cfg.in_fmt[x], frames, channels)
         IN  /\ rb' = [rb EXCEPT ![x] = PushAll(@, samples, Capacity(x))]
             /\ hist' = [hist EXCEPT ![x] =
                           [made |-> TRUE, frames |-> frames, silent |-> silent,
                            read |-> ~silent /\ samples # <<>>, pushed |-> samples]]
    /\ UNCHANGED <<endpoints, neg_vars, cpal_vars, lifecycle_vars, catalog_vars, cfg, listen, rnd>>

\* Render loop, lines 783-784: the render thread pops one sample
RenderTake(x) ==
    /\ rb[x] # <<>>
    /\ rb' = [rb EXCEPT ![x] = pop(@).rest]
    /\ UNCHANGED <<endpoints, neg_vars, cpal_vars, lifecycle_vars, catalog_vars, cfg, listen, hist, rnd>>

\* A run with one connected input, its Transport empty, its format any of
\* InFormats
CaptureInit ==
    /\ endpoints \in EndpointSets
    /\ BackendNew
    /\ listing = NoListing
    /\ picked = NoPick
    /\ \E c \in {c \in Configs : c.fmt = "f32" /\ c.channels = 1
                                /\ Cardinality(c.connected) = 1} :
       \E f \in InFormats :
         cfg = [fmt |-> c.fmt, channels |-> c.channels, in_channels |-> c.in_channels,
                connected |-> c.connected, in_fmt |-> [x \in c.connected |-> f]]
    /\ listen = [a |-> TRUE, b |-> TRUE]
    /\ rb = [a |-> <<>>, b |-> <<>>]
    /\ hist = [x \in cfg.connected |-> NoBuffer]
    /\ rnd = NoRender
    /\ NoNegotiation
    /\ NoCpal

CaptureNext ==
    \/ \E x \in Inputs : CaptureBuffer(x)
    \/ \E x \in Inputs : RenderTake(x)

CaptureSpec == CaptureInit /\ [][CaptureNext]_vars

-----------------------------------------------------------------------------
(* The ends of the Transports: which thread start hands each one to, and    *)
(* which threads push and pop.                                              *)

\* The end is in no thread's closure
NoEnd == "none"

\* Variant of the hand-over in which each capture closure takes the other
\* input's producer
HandOverCrossed(connected) ==
    [prod |-> [t \in Inputs |-> IF t \in connected
                                THEN (IF t = "a" THEN "b" ELSE "a") ELSE NoEnd],
     cons |-> [t \in Roles |-> IF t = "out" THEN Inputs ELSE {}],
     control |-> {}]

\* start(), lines 573-738: rb_a.split() and rb_b.split() give the control
\* thread the four ends; the `move` closure of capture thread A takes prod_a,
\* that of capture thread B prod_b, that of the render thread cons_a and
\* cons_b.  The producer of an input without a bundle is dropped when start
\* leaves the block.  `control` are the ends start still holds at its return.
HandOver(connected) ==
    [prod |-> [t \in Inputs |-> IF t \in connected THEN t ELSE NoEnd],
     cons |-> [t \in Roles |-> IF t = "out" THEN Inputs ELSE {}],
     control |-> {}]

\* Capture loop, lines 621-632 (694-705): capture thread t pushes a sample
\* through the producer in its closure
ThreadPush(t) ==
    /\ t \in Inputs
    /\ hist.ends.prod[t] # NoEnd
    /\ LET x == hist.ends.prod[t]
       IN  /\ rb' = [rb EXCEPT ![x] = push(@, 1, Capacity(x))]
           /\ hist' = [hist EXCEPT !.pushed[x] = @ \cup {t}]
    /\ UNCHANGED <<endpoints, neg_vars, cpal_vars, lifecycle_vars, catalog_vars, cfg, listen, rnd>>

\* Render loop, lines 783-784: thread t pops through a consumer in its closure
ThreadPop(t, x) ==
    /\ x \in hist.ends.cons[t]
    /\ rb' = [rb EXCEPT ![x] = pop(@).rest]
    /\ hist' = [hist EXCEPT !.popped[x] = @ \cup {t}]
    /\ UNCHANGED <<endpoints, neg_vars, cpal_vars, lifecycle_vars, catalog_vars, cfg, listen, rnd>>

\* The state at the return of a successful start: the Transports are empty and
\* their ends are handed over
OwnerInit ==
    /\ endpoints \in EndpointSets
    /\ BackendNew
    /\ listing = NoListing
    /\ picked = NoPick
    /\ cfg \in {c \in Configs : c.fmt = "f32" /\ c.channels = 1}
    /\ listen = [a |-> FALSE, b |-> FALSE]
    /\ rb = [a |-> <<>>, b |-> <<>>]
    /\ hist = [ends |-> HandOver(cfg.connected),
               pushed |-> [x \in Inputs |-> {}],
               popped |-> [x \in Inputs |-> {}]]
    /\ rnd = NoRender
    /\ NoNegotiation
    /\ NoCpal

OwnerNext ==
    \/ \E t \in Inputs : ThreadPush(t)
    \/ \E t \in Roles, x \in Inputs : ThreadPop(t, x)
    \/ \E x \in Inputs : Toggle(x)

OwnerSpec == OwnerInit /\ [][OwnerNext]_vars

-----------------------------------------------------------------------------
(* One run's pipeline threads, followed native call by native call from    *)
(* their spawn to their return, while the control thread calls stop.       *)
(* hist[r] are the calls thread r has made on its audio client and its     *)
(* service interface.                                                       *)

\* lines 596-602 (746-752): GetService; on failure the thread releases its
\* audio client and returns
PipeGetService(r) ==
    /\ thr[r].pc = "init"
    /\ \/ /\ thr[r].flow_ok
          /\ thr' = [thr EXCEPT ![r].pc = "start"]
          /\ UNCHANGED <<client, hist>>
       \/ /\ client' = Release(client, Handle(r))
          /\ hist' = [hist EXCEPT ![r] = Append(@, "Release")]
          /\ thr' = [thr EXCEPT ![r] = Terminated]
    /\ UNCHANGED <<endpoints, neg_vars, cpal_vars, catalog_vars, cfg, listen, rb, rnd, stop_flag, threads,
                   event_handles, signaled, event, lost, ctl, call>>

\* line 604 (754): (*audio_client).Start(), then the loop is entered
PipeStart(r) ==
    /\ thr[r].pc = "start"
    /\ hist' = [hist EXCEPT ![r] = Append(@, "Start")]
    /\ thr' = [thr EXCEPT ![r].pc = "check"]
    /\ UNCHANGED <<endpoints, neg_vars, cpal_vars, catalog_vars, cfg, listen, rb, rnd, stop_flag, threads,
                   event_handles, signaled, client, event, lost, ctl, call>>

\* Variant of the exit path that leaves the clock running
PipeLeaveClock(r) ==
    /\ thr[r].pc = "exit"
    /\ thr' = [thr EXCEPT ![r].pc = "stopped"]
    /\ UNCHANGED <<endpoints, neg_vars, cpal_vars, catalog_vars, dsp_vars, stop_flag, threads,
                   event_handles, signaled, client, event, lost, ctl, call>>

\* line 641 (820): (*audio_client).Stop(), once the loop has ended
PipeStopClock(r) ==
    /\ thr[r].pc = "exit"
    /\ hist' = [hist EXCEPT ![r] = Append(@, "Stop")]
    /\ thr' = [thr EXCEPT ![r].pc = "stopped"]
    /\ UNCHANGED <<endpoints, neg_vars, cpal_vars, catalog_vars, cfg, listen, rb, rnd, stop_flag, threads,
                   event_handles, signaled, client, event, lost, ctl, call>>

\* line 642 (821): (*capture_client).Release() / (*render_client).Release()
PipeReleaseService(r) ==
    /\ thr[r].pc = "stopped"
    /\ hist' = [hist EXCEPT ![r] = Append(@, "ReleaseService")]
    /\ thr' = [thr EXCEPT ![r].pc = "unserved"]
    /\ UNCHANGED <<endpoints, neg_vars, cpal_vars, catalog_vars, cfg, listen, rb, rnd, stop_flag, threads,
                   event_handles, signaled, client, event, lost, ctl, call>>

\* lines 643-645 (822-824): (*audio_client).Release(), and the closure returns
PipeReleaseClient(r) ==
    /\ thr[r].pc = "unserved"
    /\ client' = Release(client, Handle(r))
    /\ hist' = [hist EXCEPT ![r] = Append(@, "Release")]
    /\ thr' = [thr EXCEPT ![r] = Terminated]
    /\ UNCHANGED <<endpoints, neg_vars, cpal_vars, catalog_vars, cfg, listen, rb, rnd, stop_flag, threads,
                   event_handles, signaled, event, lost, ctl, call>>

PipeStep(r) ==
    \/ PipeGetService(r)
    \/ PipeStart(r)
    \/ ThreadCheck(r)
    \/ ThreadWait(r)
    \/ ThreadTimeout(r)
    \/ ThreadProcess(r)
    \/ PipeStopClock(r)
    \/ PipeReleaseService(r)
    \/ PipeReleaseClient(r)

\* The state at the return of the first start call, which opened the output
\* and the selected inputs and spawned their threads (lines 577-835)
PipeInit ==
    /\ endpoints \in EndpointSets
    /\ \E S \in {T \in SUBSET Roles : "out" \in T} :
         /\ threads = SelectRoles(SpawnOrder, S)
         /\ event_handles = [i \in 1..Len(SelectRoles(SpawnOrder, S)) |->
                               <<1, SelectRoles(SpawnOrder, S)[i]>>]
         /\ thr \in [Roles -> [pc : {"init", "none"}, id : {0, 1}, flow_ok : BOOLEAN]]
         /\ \A r \in Roles : IF r \in S THEN thr[r].pc = "init" /\ thr[r].id = 1
                                        ELSE thr[r] = NoThread
         /\ client = [h \in Handles |-> IF h[1] = 1 /\ h[2] \in S THEN "thread" ELSE "none"]
         /\ event = [h \in Handles |-> IF h[1] = 1 /\ h[2] \in S THEN "backend" ELSE "none"]
         /\ call = [NoCall EXCEPT !.op = "start", !.ret = "Ok", !.selected = S,
                                  !.opened = S, !.spawned = S, !.transports = 2,
                                  !.out_cap = TRUE]
    /\ stop_flag = FALSE
    /\ signaled = [r \in Roles |-> FALSE]
    /\ lost = {}
    /\ ctl = [pc |-> "idle", op |-> "start", n |-> 1]
    /\ listing = [valid |-> TRUE, entries |-> enumerate_devices(endpoints)]
    /\ picked = NoPick
    /\ NoNegotiation
    /\ NoCpal
    /\ cfg = NoConfig
    /\ listen = [a |-> FALSE, b |-> FALSE]
    /\ rb = [a |-> <<>>, b |-> <<>>]
    /\ hist = [r \in Roles |-> <<>>]
    /\ rnd = NoRender

PipeNext ==
    \/ StopBegin
    \/ StopStep
    \/ \E r \in Roles : PipeStep(r)
    \/ \E r \in Roles : DeviceSignal(r)

PipeSpec == PipeInit /\ [][PipeNext]_vars

-----------------------------------------------------------------------------
(* The cpal backend: cpal_backend.rs.  The control thread runs             *)
(* CpalBackend::start one device at a time; its locals (the ordinals and   *)
(* the device indices they map to) exist while the call is in progress.    *)

\* "Unknown Device", the name of a device whose name() fails
UnknownDevice == <<85, 110, 107, 110, 111, 119, 110, 32, 68, 101, 118, 105, 99, 101>>

\* device.name().unwrap_or_else(|_| "Unknown Device".to_string())
cpal_name(d) == IF d.name = NoName THEN UnknownDevice ELSE d.name

\* The devices the host lists: named "A" or "B" or without a readable name,
\* with a default input config or a default output config
CpalDevices ==
    { [name |-> n, input_ok |-> i, output_ok |-> ~i] :
        n \in {<<65>>, <<66>>, NoName}, i \in BOOLEAN }

CpalHosts ==
    UNION { [1..n -> CpalDevices] : n \in 0..MaxDevices }

\* `if seen.contains(&name) { continue; } seen.push(name.clone());`: the first
\* device of each name, in the host's order
RECURSIVE unique_by_name(_, _)
unique_by_name(devices, seen) ==
    IF devices = <<>> THEN <<>>
    ELSE LET d == Head(devices)
         IN  IF cpal_name(d) \in seen
             THEN unique_by_name(Tail(devices), seen)
             ELSE <<d>> \o unique_by_name(Tail(devices), seen \cup {cpal_name(d)})

\* The two entries pushed per device, device_id: None
RECURSIVE cpal_entries(_)
cpal_entries(devices) ==
    IF devices = <<>> THEN <<>>
    ELSE LET d == Head(devices)
         IN  << DeviceEntry(cpal_name(d) \o SharedSuffix, NONE, "Shared",
                            d.input_ok, d.output_ok),
                DeviceEntry(cpal_name(d) \o ExclusiveSuffix, NONE, "Exclusive",
                            d.input_ok, d.output_ok) >>
             \o cpal_entries(Tail(devices))

\* CpalBackend::enumerate_devices, lines 31-54
cpal_enumerate_devices(devices) ==
    sort_by_name(cpal_entries(unique_by_name(devices, {})))

\* `opt_idx.map(|i| i / 2)`
map_index(i) == IF i = NoOrdinal THEN NoOrdinal ELSE i \div 2

\* self.devices.get(idx)
devices_get(devices, idx) ==
    IF idx < Len(devices) THEN [some |-> TRUE, device |-> devices[idx + 1]]
    ELSE [some |-> FALSE, device |-> NONE]

NoLocals == [r \in Roles |-> NoOrdinal]

\* CpalBackend::new: no stream, no cached device
CpalNew == [pc |-> "idle", op |-> "none", ret |-> "none", active_streams |-> <<>>,
            devices |-> <<>>, sel |-> NoLocals, idx |-> NoLocals]

\* What build_input_stream / build_output_stream and play can do for a device
\* that has a default config: succeed, or fail on the sample format, in the
\* build or in play
StreamOutcomes == {"ok", "UnsupportedFormat", "BuildError", "PlayError"}

\* `?` or `return Err(..)`: the locals are dropped, self.active_streams stays
\* as it is
CpalReturn(ret, streams) ==
    cpal' = [cpal EXCEPT !.pc = "idle", !.ret = ret, !.active_streams = streams,
                         !.sel = NoLocals, !.idx = NoLocals]

\* AudioApp: enumerate_devices, between two calls of start and stop
CpalEnumerate ==
    /\ cpal.pc = "idle"
    /\ listing' = [valid |-> TRUE, entries |-> cpal_enumerate_devices(host.devices)]
    /\ UNCHANGED <<endpoints, lifecycle_vars, picked, dsp_vars, neg_vars, cpal_vars>>

\* start, lines 57-79: the streams of an earlier run are dropped, self.devices
\* is rebuilt, the three ordinals are mapped to device indices
CpalStartBegin ==
    /\ cpal.pc = "idle"
    /\ \E input_a, input_b, output \in Ordinals(listing.entries) \cup {NoOrdinal} :
         LET sel == [r \in Roles |-> CASE r = "a" -> input_a
                                      [] r = "b" -> input_b
                                      [] OTHER -> output]
         IN  cpal' = [pc |-> "in_a", op |-> "start", ret |-> "pending",
                      active_streams |-> <<>>,
                      devices |-> unique_by_name(host.devices, {}),
                      sel |-> sel,
                      idx |-> [r \in Roles |-> map_index(sel[r])]]
    /\ UNCHANGED <<endpoints, lifecycle_vars, catalog_vars, dsp_vars, neg_vars, host>>

\* start, lines 89-144 (146-201): if the input's ordinal is given and
\* self.devices has the device, its default input config is taken, the stream
\* is built and played and pushed to active_streams; an ordinal past the
\* devices is passed over
CpalInput(r) ==
    /\ r \in Inputs
    /\ cpal.pc = (IF r = "a" THEN "in_a" ELSE "in_b")
    /\ LET next == IF r = "a" THEN "in_b" ELSE "out"
           got == IF cpal.idx[r] = NoOrdinal THEN [some |-> FALSE, device |-> NONE]
                  ELSE devices_get(cpal.devices, cpal.idx[r])
       IN  IF ~got.some
           THEN cpal' = [cpal EXCEPT !.pc = next]
           ELSE IF ~got.device.input_ok
           THEN CpalReturn("InputConfigError", cpal.active_streams)
           ELSE \E outcome \in StreamOutcomes :
                  IF outcome = "ok"
                  THEN cpal' = [cpal EXCEPT !.pc = next,
                                            !.active_streams = Append(@, r)]
                  ELSE CpalReturn(outcome, cpal.active_streams)
    /\ UNCHANGED <<endpoints, lifecycle_vars, catalog_vars, dsp_vars, neg_vars, host>>

\* start, lines 203-248: the output stream
CpalOutput ==
    /\ cpal.pc = "out"
    /\ IF cpal.idx["out"] = NoOrdinal
       THEN CpalReturn("NoOutputSelected", cpal.active_streams)
       ELSE LET got == devices_get(cpal.devices, cpal.idx["out"])
            IN  IF ~got.some
                THEN CpalReturn("OutputNotFound", cpal.active_streams)
                ELSE IF ~got.device.output_ok
                THEN CpalReturn("OutputConfigError", cpal.active_streams)
                ELSE \E outcome \in StreamOutcomes :
                       IF outcome = "ok"
                       THEN CpalReturn("Ok", Append(cpal.active_streams, "out"))
                       ELSE CpalReturn(outcome, cpal.active_streams)
    /\ UNCHANGED <<endpoints, lifecycle_vars, catalog_vars, dsp_vars, neg_vars, host>>

\* stop, lines 251-255
CpalStop ==
    /\ cpal.pc = "idle"
    /\ cpal' = [cpal EXCEPT !.op = "stop", !.ret = "Ok", !.active_streams = <<>>]
    /\ UNCHANGED <<endpoints, lifecycle_vars, catalog_vars, dsp_vars, neg_vars, host>>

\* AudioApp::new on the cpal backend: the backend is constructed and the
\* catalog enumerated once
CpalInit ==
    /\ endpoints \in EndpointSets
    /\ BackendNew
    /\ host \in [devices : CpalHosts]
    /\ cpal = CpalNew
    /\ listing = [valid |-> TRUE, entries |-> cpal_enumerate_devices(host.devices)]
    /\ picked = NoPick
    /\ NoNegotiation
    /\ cfg = NoConfig
    /\ listen = [a |-> FALSE, b |-> FALSE]
    /\ rb = [a |-> <<>>, b |-> <<>>]
    /\ hist = NoHist
    /\ rnd = NoRender

CpalNext ==
    \/ CpalEnumerate
    \/ CpalStartBegin
    \/ \E r \in Inputs : CpalInput(r)
    \/ CpalOutput
    \/ CpalStop

CpalSpec == CpalInit /\ [][CpalNext]_vars

-----------------------------------------------------------------------------
(* Format negotiation: one call of open_device_exclusive or                 *)
(* open_device_shared, followed native call by native call.  The endpoint   *)
(* answers each IsFormatSupported as it likes; any later native call may    *)
(* fail.                                                                    *)

\* Sample rates of a mix format: the two common ones and one that is neither
NativeRates == Rates \cup {96000}

\* A WAVEFORMATEX as parse_format reads it.  tag_ok: the format tag (or the
\* subformat of an extensible format) is IEEE float or PCM.
WaveFormat(tag_ok, channels, sample_rate, bits_per_sample, is_float) ==
    [tag_ok |-> tag_ok, channels |-> channels, sample_rate |-> sample_rate,
     bits_per_sample |-> bits_per_sample, is_float |-> is_float]

\* The mix formats GetMixFormat can hand out: 32-bit float, or a format whose
\* tag parse_format does not know
MixFormats ==
    { WaveFormat(t, c, r, 32, TRUE) : t \in BOOLEAN, c \in 1..MaxChannels, r \in NativeRates }

\* The closest matches IsFormatSupported can offer for the format w
ClosestFormats(w) ==
    { WaveFormat(TRUE, w.channels, 48000, 16, FALSE),
      WaveFormat(FALSE, w.channels, 44100, 24, FALSE) }

\* parse_format: the FormatInfo of a format with a known tag, an error
\* otherwise
parse_format(w) ==
    IF w.tag_ok
    THEN [ok |-> TRUE,
          format |-> [channels |-> w.channels, sample_rate |-> w.sample_rate,
                      bits_per_sample |-> w.bits_per_sample, is_float |-> w.is_float]]
    ELSE [ok |-> FALSE, format |-> NONE]

\* What IsFormatSupported can answer for w: S_OK, S_FALSE with or without a
\* closest match, or a failure code
Answers(w) ==
    { [hr |-> "S_OK", closest |-> NONE], [hr |-> "S_FALSE", closest |-> NONE],
      [hr |-> "E_UNSUPPORTED", closest |-> NONE] }
    \cup { [hr |-> "S_FALSE", closest |-> c] : c \in ClosestFormats(w) }

\* `hr == S_OK`, or `hr == S_FALSE && !closest.is_null()`
Accepted(ans) == ans.hr = "S_OK" \/ (ans.hr = "S_FALSE" /\ ans.closest # NONE)

\* The format initialisation goes on with after an accepting answer for w
FormatFor(w, ans) == IF ans.hr = "S_OK" THEN w ELSE ans.closest

\* base_channels and the first of base_rates: those of the mix format if it
\* parses, 2 and 48000 otherwise
base_channels(mix) == IF parse_format(mix).ok THEN mix.channels ELSE 2

native_rate(mix) == IF parse_format(mix).ok THEN mix.sample_rate ELSE 48000

base_rates(mix) == <<native_rate(mix), 48000, 44100>>

\* (bits, is_float) of the inner loop
SampleTypes == <<[bits |-> 32, is_float |-> TRUE], [bits |-> 24, is_float |-> FALSE],
                 [bits |-> 16, is_float |-> FALSE]>>

\* Variant of the ladder with the sample types in the outer loop
CandidatesTypesOuter(mix) ==
    [k \in 1..(Len(base_rates(mix)) * Len(SampleTypes)) |->
        LET ty == SampleTypes[((k - 1) \div Len(base_rates(mix))) + 1]
            rate == base_rates(mix)[((k - 1) % Len(base_rates(mix))) + 1]
        IN  WaveFormat(TRUE, base_channels(mix), rate, ty.bits, ty.is_float)]

\* The candidates in the order of `for &rate in base_rates { for &(bits,
\* is_float) in [(32, true), (24, false), (16, false)] {..} }`, each an
\* extensible format with the base channel count
Candidates(mix) ==
    [k \in 1..(Len(base_rates(mix)) * Len(SampleTypes)) |->
        LET rate == base_rates(mix)[((k - 1) \div Len(SampleTypes)) + 1]
            ty == SampleTypes[((k - 1) % Len(SampleTypes)) + 1]
        IN  WaveFormat(TRUE, base_channels(mix), rate, ty.bits, ty.is_float)]

\* Variant of the dispatch that opens every device in shared mode
OpenModeShared(entry) == "Shared"

\* start: `match mode { Exclusive => open_device_exclusive, Shared =>
\* open_device_shared }` with the mode of the resolved entry
OpenMode(entry) == entry.mode

NegIdle == [pc |-> "idle", mode |-> "none", entry |-> NONE,
            client |-> "none", event |-> "none",
            mix_answer |-> NONE, asked |-> <<>>, answers |-> <<>>, answer |-> NONE,
            fmt_ptr |-> NONE, ret |-> "none", err |-> "none", format |-> NONE]

\* An error return of the call
NegErr(n, msg) == [n EXCEPT !.pc = "done", !.ret = "Err", !.err = msg]

\* neg.asked are the candidates the endpoint was asked about, neg.answers
\* whether it accepted each, neg.answer the accepting answer.

\* Lines 228-248 (361-381): the call start makes for a resolved entry, up to
\* GetMixFormat.  GetDevice or Activate failing leaves no client; GetMixFormat
\* failing releases the one just activated.
NegOpen ==
    /\ neg.pc = "idle"
    /\ \E idx \in Ordinals(enumerate_devices(endpoints)) :
         LET got == get_entry(enumerate_devices(endpoints), idx)
             called == [neg EXCEPT !.entry = got.entry, !.mode = OpenMode(got.entry)]
         IN  /\ got.ok
             /\ \/ neg' = NegErr(called, "GetDevice")
                \/ neg' = NegErr(called, "Activate")
                \/ neg' = NegErr([called EXCEPT !.client = "released"], "GetMixFormat")
                \/ neg' = [called EXCEPT !.pc = "mix", !.client = "open"]
    /\ UNCHANGED <<endpoints, lifecycle_vars, catalog_vars, dsp_vars, cpal_vars, dev>>

\* Lines 295-306 (382-392): IsFormatSupported on the mix format.  Shared mode
\* fails here if the answer is not an accepting one; exclusive mode goes on to
\* the ladder.
NegAskMix ==
    /\ neg.pc = "mix"
    /\ \E ans \in Answers(dev.mix) :
         LET n == [neg EXCEPT !.mix_answer = ans]
         IN  IF Accepted(ans)
             THEN neg' = [n EXCEPT !.pc = "init", !.fmt_ptr = FormatFor(dev.mix, ans)]
             ELSE IF neg.mode = "Shared"
             THEN neg' = NegErr([n EXCEPT !.client = "released"], "IsFormatSupported")
             ELSE neg' = [n EXCEPT !.pc = "ladder"]
    /\ UNCHANGED <<endpoints, lifecycle_vars, catalog_vars, dsp_vars, cpal_vars, dev>>

\* Lines 318-352: the next candidate of the ladder is built and the endpoint
\* is asked about it; the first accepting answer ends the search.  (block_align
\* is never 0: every candidate has at least 16 bits and one channel.)
NegAskCandidate ==
    /\ neg.pc = "ladder"
    /\ Len(neg.asked) < Len(Candidates(dev.mix))
    /\ LET w == Candidates(dev.mix)[Len(neg.asked) + 1] IN
       \E ans \in Answers(w) :
         LET n == [neg EXCEPT !.asked = Append(@, w),
                              !.answers = Append(@, Accepted(ans))]
         IN  IF Accepted(ans)
             THEN neg' = [n EXCEPT !.pc = "init", !.answer = ans,
                                   !.fmt_ptr = FormatFor(w, ans)]
             ELSE neg' = n
    /\ UNCHANGED <<endpoints, lifecycle_vars, catalog_vars, dsp_vars, cpal_vars, dev>>

\* Variant of the exhausted ladder's return that keeps the audio client
NegExhaustedKeep ==
    /\ neg.pc = "ladder"
    /\ Len(neg.asked) = Len(Candidates(dev.mix))
    /\ neg' = NegErr(neg, "Unsupported")
    /\ UNCHANGED <<endpoints, lifecycle_vars, catalog_vars, dsp_vars, cpal_vars, dev>>

\* Lines 355-357: every candidate was turned down; the client is released
NegExhausted ==
    /\ neg.pc = "ladder"
    /\ Len(neg.asked) = Len(Candidates(dev.mix))
    /\ neg' = NegErr([neg EXCEPT !.client = "released"], "Unsupported")
    /\ UNCHANGED <<endpoints, lifecycle_vars, catalog_vars, dsp_vars, cpal_vars, dev>>

\* The native calls of the initialisation, in order
InitCalls == <<"parse_format", "GetDevicePeriod", "Initialize", "CreateEventW",
               "SetEventHandle", "GetBufferSize">>

\* The initialisation with fmt_ptr, failing at the call `failed` or not at all
\* ("none").  A failure after CreateEventW closes the event.  released: whether
\* the error returns release the audio client.
Initialise(failed, released) ==
    IF failed = "none"
    THEN [neg EXCEPT !.pc = "done", !.ret = "Ok", !.event = "open",
                     !.format = parse_format(neg.fmt_ptr).format]
    ELSE NegErr([neg EXCEPT
                   !.event = IF failed \in {"SetEventHandle", "GetBufferSize"}
                             THEN "closed" ELSE "none",
                   !.client = IF released THEN "released" ELSE "open"],
                failed)

\* The calls that can fail with the format fmt_ptr: parse_format fails on an
\* unknown tag and on nothing else
Failures ==
    IF parse_format(neg.fmt_ptr).ok
    THEN {"none"} \cup {InitCalls[i] : i \in 2..Len(InitCalls)}
    ELSE {"parse_format"}

\* Lines 250-292: the closure try_init of open_device_exclusive.  Its error
\* returns release nothing but the event, and its caller returns its result
\* as it is (lines 299-305, 343-349).
try_init ==
    /\ neg.pc = "init"
    /\ neg.mode = "Exclusive"
    /\ \E failed \in Failures : neg' = Initialise(failed, FALSE)
    /\ UNCHANGED <<endpoints, lifecycle_vars, catalog_vars, dsp_vars, cpal_vars, dev>>

\* Lines 394-461: the initialisation of open_device_shared; every error return
\* releases the audio client
NegInitShared ==
    /\ neg.pc = "init"
    /\ neg.mode = "Shared"
    /\ \E failed \in Failures : neg' = Initialise(failed, TRUE)
    /\ UNCHANGED <<endpoints, lifecycle_vars, catalog_vars, dsp_vars, cpal_vars, dev>>

\* A backend about to open one device of the catalog
NegotiateInit ==
    /\ endpoints \in EndpointSets
    /\ BackendNew
    /\ listing = NoListing
    /\ picked = NoPick
    /\ cfg = NoConfig
    /\ listen = [a |-> FALSE, b |-> FALSE]
    /\ rb = [a |-> <<>>, b |-> <<>>]
    /\ hist = NoHist
    /\ rnd = NoRender
    /\ dev \in [mix : MixFormats]
    /\ neg = NegIdle
    /\ NoCpal

NegotiateNext ==
    \/ NegOpen
    \/ NegAskMix
    \/ NegAskCandidate
    \/ NegExhausted
    \/ try_init
    \/ NegInitShared

NegotiateSpec == NegotiateInit /\ [][NegotiateNext]_vars

\* The threads are scheduled by the operating system and the control thread
\* runs the call it is in to its end: no enabled step of a pipeline thread, of
\* stop's drain and join loops, or of start's return from its inner stop is
\* postponed for ever.
FairSpec ==
    /\ Spec
    /\ \A r \in Roles : WF_vars(ThreadStep(r))
    /\ WF_vars(StopStep)
    /\ WF_vars(StartClearFlag)

-----------------------------------------------------------------------------
(* Properties *)

\* start has returned to the application
StartReturned == ctl.pc = "idle" /\ call.op = "start"

StartFailed == StartReturned /\ call.ret # "Ok"

\* stop has returned to the application
StopReturned == ctl.pc = "idle" /\ call.op = "stop"

MismatchErrors == {"RateMismatchA", "RateMismatchB"}

\* The handles the current (latest) start call obtained
Mine(h) == h[1] = ctl.n

\* C1: when start fails after at least one device was opened, every audio
\* client and every event opened by that call has been released at the return.
C1_FailedStartReleasesAll ==
    (StartFailed /\ call.opened # {})
        => \A h \in Handles : Mine(h) => ~ClientOpen(h) /\ ~EventOpen(h)

\* C2 as stated: a start call that returns the rate-mismatch error has opened
\* no device.
C2_MismatchBeforeAnyOpen ==
    (StartReturned /\ call.ret \in MismatchErrors) => call.opened = {}

\* C2, amended: a start call that returns the rate-mismatch error has opened
\* the output and every selected input before it compared the rates, and has
\* spawned no thread.
C2_MismatchAfterAllOpens ==
    (StartReturned /\ call.ret \in MismatchErrors)
        => /\ "out" \in call.opened
           /\ call.opened = call.selected
           /\ call.spawned = {}

C2_Witness ==
    /\ StartReturned
    /\ call.ret = "RateMismatchB"
    /\ call.opened = Roles

\* C3 as stated: if a connected input negotiated another sample rate than the
\* output, start returns a rate-mismatch error, creates no Transport and
\* spawns no thread.
C3_DifferingRatesRejected ==
    (StartReturned /\ call.differ)
        => /\ call.ret \in MismatchErrors
           /\ call.transports = 0
           /\ call.spawned = {}

\* C3, amended: if a connected input negotiated another sample rate than the
\* output, start returns an error, creates no Transport and spawns no thread;
\* the error is the rate-mismatch error when every selected device was opened.
C3_DifferingRatesFail ==
    (StartReturned /\ call.differ)
        => /\ call.ret # "Ok"
           /\ call.opened = call.selected => call.ret \in MismatchErrors
           /\ call.transports = 0
           /\ call.spawned = {}
           /\ \A r \in Roles : thr[r].id # ctl.n

C3_Witness ==
    /\ StartReturned
    /\ call.differ
    /\ call.ret = "RateMismatchA"
    /\ call.transports = 0

\* C4: whenever start returns an error, no pipeline thread is alive and none
\* is recorded in the backend, also when a run was active before the call.
C4_FailedStartIsStopped ==
    StartFailed
        => /\ threads = <<>>
           /\ event_handles = <<>>
           /\ \A r \in Roles : ~Alive(r)

C4_Witness ==
    /\ StartFailed
    /\ call.prev = "start_ok"
    /\ \E h \in Handles : h[1] = ctl.n - 1 /\ client[h] = "released"

\* C5: after stop returns following a successful start, every thread of the
\* run has terminated, every audio client of the run is released, every event
\* of the run is closed, and the backend holds no thread or event handle.
C5_StopReleasesRun ==
    (StopReturned /\ call.prev = "start_ok")
        => /\ \A r \in Roles : ~Alive(r)
           /\ threads = <<>>
           /\ event_handles = <<>>
           /\ \A h \in Handles :
                Mine(h) => /\ client[h] \in {"none", "released"}
                           /\ event[h] \in {"none", "closed"}
                           /\ client[h] = "released" <=> event[h] = "closed"

C5_Witness ==
    /\ StopReturned
    /\ call.prev = "start_ok"
    /\ \A r \in Roles : client[<<ctl.n, r>>] = "released" /\ event[<<ctl.n, r>>] = "closed"

\* C6: once stop has set the flag and signalled every event, every pipeline
\* thread terminates, and the joins and the stop complete; a thread that is
\* blocked in its wait when stop signals its event returns from the wait with
\* the event (WAIT_OBJECT_0) at that step, and never by the timeout.
C6_StopWakesAndTerminates ==
    /\ (stop_flag /\ event_handles = <<>>) ~> (\A r \in Roles : ~Alive(r))
    /\ (ctl.pc \in {"drain", "close"}) ~> (ctl.pc \in {"idle", "body"})
    /\ [][ /\ (ctl.pc = "drain" /\ ctl'.pc = "close"
                 /\ thr[Head(event_handles)[2]].pc = "wait")
              => thr'[Head(event_handles)[2]].pc = "work"
           /\ \A r \in call.blocked :
                ~(thr[r].pc = "wait" /\ thr'[r].pc = "check") ]_vars

C6_Witness ==
    /\ StopReturned
    /\ call.ret = "Ok"
    /\ call.blocked # {}
    /\ \A r \in call.blocked : thr[r].pc = "none"

\* C7: stop on a backend that was never started, or called twice in a row,
\* returns Ok, closes no handle twice, and leaves no live thread and no open
\* audio client or event.
C7_StopIdempotent ==
    (StopReturned /\ call.prev \in {"none", "stop"})
        => /\ call.ret = "Ok"
           /\ \A h \in Handles : client[h] # "twice" /\ event[h] # "twice"
           /\ \A r \in Roles : ~Alive(r)
           /\ \A h \in Handles : ~ClientOpen(h) /\ ~EventOpen(h)
           /\ lost = {}

\* C8: after a start followed by a second, successful start, nothing of the
\* first call remains (no open handle, no thread), and every thread of the
\* second call that is starting up has its audio client and its event open.
C8_RestartLeavesSecondOnly ==
    (StartReturned /\ call.ret = "Ok" /\ call.prev \in {"start_ok", "start_err"})
        => /\ lost = {}
           /\ \A h \in Handles :
                (ClientOpen(h) \/ EventOpen(h)) => Mine(h) /\ h[2] \in call.selected
           /\ \A r \in Roles : Alive(r) => thr[r].id = ctl.n /\ r \in call.selected
           /\ \A r \in call.selected :
                thr[r].pc = "init" => ClientOpen(<<ctl.n, r>>) /\ EventOpen(<<ctl.n, r>>)

\* C9: when start is called while a run is active, every thread of that run
\* has terminated and released its audio client before the first device of
\* the new run is opened, and the stop flag is cleared only once the threads
\* are joined.
C9_PriorRunStoppedFirst ==
    /\ [](ctl.pc = "body"
            => /\ threads = <<>>
               /\ \A r \in Roles : ~Alive(r)
               /\ \A h \in Handles : client[h] # "thread")
    /\ [][(stop_flag /\ ~stop_flag')
            => /\ threads = <<>>
               /\ \A r \in Roles : thr[r].pc = "none"]_vars

C9_Witness ==
    /\ ctl.pc = "body"
    /\ call.prev = "start_ok"
    /\ \E h \in Handles : h[1] = ctl.n - 1 /\ client[h] = "released" /\ event[h] = "closed"

\* C10: start succeeds only if the output ordinal is given and names an entry
\* of the catalog with output capability; otherwise it spawns no pipeline.
C10_OutputCapabilityRequired ==
    StartReturned
        => /\ call.ret = "Ok" => ("out" \in call.selected /\ call.out_cap)
           /\ call.spawned # {} => call.out_cap

\* C11: if a pipeline thread fails to acquire its capture service after its
\* device was opened, the start call that launched it returns an error.  (A
\* thread that has returned while no stop was requested since the flag was
\* cleared is one whose GetService failed.)
C11_ServiceFailureFailsStart ==
    \A r \in {"a", "b"} :
        (StartReturned /\ ~stop_flag /\ r \in call.spawned /\ thr[r].pc = "done")
            => call.ret # "Ok"

\* C20: an event handle is closed only when its thread has exited, and no
\* thread is about to wait on an event handle that stop has closed.
C20_EventOutlivesThread ==
    /\ \A h \in Handles :
         event[h] \in {"closed", "twice"} => ~(Alive(h[2]) /\ thr[h[2]].id = h[1])
    /\ \A r \in Roles : thr[r].pc = "call" => EventOpen(Handle(r))

\* C19 as stated: start returns the rate-mismatch error naming input X exactly
\* when X is connected and its negotiated sample rate differs from the
\* output's; input A is checked before input B.
C19_MismatchIffRatesDiffer ==
    StartReturned
        => /\ call.ret = "RateMismatchA" <=> "a" \in call.ne
           /\ call.ret = "RateMismatchB" <=> ("b" \in call.ne /\ "a" \notin call.ne)

\* C19, amended: start returns the rate-mismatch error naming input X exactly
\* when every selected device was opened and X is connected with a negotiated
\* sample rate that differs from the output's or a negotiated channel count
\* of 0; input A is checked before input B.
C19_MismatchIffRejectedFormat ==
    StartReturned
        => /\ call.ret = "RateMismatchA"
                <=> (call.opened = call.selected /\ "a" \in call.ne \cup call.zero)
           /\ call.ret = "RateMismatchB"
                <=> (/\ call.opened = call.selected
                     /\ "a" \notin call.ne \cup call.zero
                     /\ "b" \in call.ne \cup call.zero)

C19_Witness ==
    /\ StartReturned
    /\ call.ret = "RateMismatchA"
    /\ "a" \in call.zero
    /\ "a" \notin call.ne
    /\ "b" \in call.ne

\* The endpoints of a flow whose id the enumeration could read
Listed(collection) == {i \in 1..Len(collection) : collection[i].id_ok}

\* The positions of the listing that name the endpoint with this id
EntriesOf(id) == {i \in 1..Len(listing.entries) : listing.entries[i].device_id = id}

\* The listing holds exactly two entries for the endpoint: one Shared, one
\* Exclusive, with the flags of the endpoint's flow on both
PairOf(id, is_input, is_output) ==
    /\ Cardinality(EntriesOf(id)) = 2
    /\ \E i, j \in EntriesOf(id) :
         /\ listing.entries[i].mode = "Shared"
         /\ listing.entries[j].mode = "Exclusive"
    /\ \A i \in EntriesOf(id) :
         /\ listing.entries[i].is_input = is_input
         /\ listing.entries[i].is_output = is_output

\* C16: for every set of endpoints, enumerate_devices returns exactly two
\* entries per discovered endpoint, one Shared and one Exclusive, with the
\* same device_id and the same is_input/is_output flags, and nothing else.
C16_TwoEntriesPerDevice ==
    listing.valid
        => /\ \A i \in Listed(endpoints.render) :
                PairOf(endpoints.render[i].id, FALSE, TRUE)
           /\ \A i \in Listed(endpoints.capture) :
                PairOf(endpoints.capture[i].id, TRUE, FALSE)
           /\ Len(listing.entries) =
                2 * (Cardinality(Listed(endpoints.render))
                     + Cardinality(Listed(endpoints.capture)))

C16_Witness ==
    /\ listing.valid
    /\ Len(listing.entries) = 2
    /\ Len(endpoints.render) = 1
    /\ Len(endpoints.capture) = 1
    /\ endpoints.capture[1].name = NoName

\* C17: the sequence enumerate_devices returns is in non-decreasing order of
\* the decorated names, and an ordinal given to start resolves to the entry at
\* that position (counted from 0) of the sequence enumerated at that moment.
C17_SortedAndResolvedByPosition ==
    /\ listing.valid
         => \A i, j \in 1..Len(listing.entries) :
              i < j => ~NameLess(listing.entries[j].name, listing.entries[i].name)
    /\ (picked.made /\ listing.valid /\ picked.idx # NoOrdinal)
         => /\ picked.ok <=> picked.idx < Len(listing.entries)
            /\ picked.ok => picked.entry = listing.entries[picked.idx + 1]

C17_Witness ==
    /\ listing.valid
    /\ picked.made
    /\ picked.idx = 3
    /\ picked.ok
    /\ picked.entry.is_output
    /\ listing.entries[1].is_input

-----------------------------------------------------------------------------
(* The data path *)

Max(m, n) == IF m > n THEN m ELSE n

Min(m, n) == IF m < n THEN m ELSE n

\* C12: an input whose gate the render thread found false is popped exactly as
\* often as one whose gate is true, in_x_channels times per frame, so that its
\* Transport drains at the same pace, and every sample it contributes to the
\* mix is zero.
C12_GateFalseStillDrains ==
    \A x \in Inputs :
        /\ rnd.pc = "mix" =>
             /\ rnd.calls[x] = rnd.f * cfg.in_channels[x]
             /\ Len(rb[x]) = Max(0, rnd.len0[x] - rnd.f * cfg.in_channels[x])
        /\ rnd.last.made /\ ~rnd.use[x] =>
             \A c \in 1..cfg.channels : rnd.last[x][c] = 0

\* A frame was mixed with A's gate false and B's true: A's Transport held
\* non-zero samples and lost some, and B is heard
C12_Witness ==
    /\ rnd.last.made
    /\ ~rnd.use.a /\ ~rnd.last.gate.a /\ rnd.use.b
    /\ rnd.len0.a > 0
    /\ Len(rb.a) < rnd.len0.a
    /\ rnd.last.out[1] # 0

\* C13: every frame is mixed with the value each gate has when the frame is
\* mixed.
C13_GatesReadPerFrame ==
    rnd.last.made => rnd.use = rnd.last.gate

\* C14: a Transport never holds more than its capacity; as long as nothing was
\* popped it holds the first C samples pushed and none of the later ones; a
\* push can always be made; the samples come out in the order they went in,
\* none missing unless the Transport was full; a pop that found nothing yields
\* silence.
C14_BoundedFifo ==
    \A x \in DOMAIN hist :
        LET pushed == hist[x].pushed
            popped == hist[x].popped
            got == SelectSeq(popped, LAMBDA p : p.some)
            delivered == [i \in 1..Len(got) |-> got[i].v] \o rb[x]
        IN  /\ Len(rb[x]) <= Capacity(x)
            /\ popped = <<>> =>
                 rb[x] = SubSeq(pushed, 1, Min(Len(pushed), Capacity(x)))
            /\ Len(pushed) < PushLimit(x) => ENABLED CapturePush(x)
            /\ \A i \in 1..Len(delivered) : \A j \in 1..Len(delivered) :
                 i < j => delivered[i] < delivered[j]
            /\ \A i \in 1..Len(delivered) : delivered[i] \in 1..Len(pushed)
            /\ Len(pushed) <= Capacity(x) =>
                 delivered = SubSeq(pushed, 1, Len(delivered))
            /\ \A i \in 1..Len(popped) : ~popped[i].some => popped[i].v = 0

\* Transport A was filled, two more samples were pushed and dropped, then it
\* was popped until a pop found it empty
C14_Witness ==
    /\ "a" \in DOMAIN hist
    /\ Len(hist.a.pushed) = Capacity("a") + 2
    /\ Len(hist.a.popped) = Capacity("a") + 1
    /\ ~hist.a.popped[Capacity("a") + 1].some
    /\ hist.a.popped[1] = [some |-> TRUE, v |-> 1]
    /\ rb.a = <<>>

\* C15: with both gates true every output channel's mixed sample is a + b; the
\* 32-bit float output is that sum and the 16-bit output is
\* round(clamp(a + b, -1, 1) * 32767).
C15_SumAndRoundedI16 ==
    rnd.last.made /\ rnd.use.a /\ rnd.use.b =>
        \A c \in 1..cfg.channels :
            LET mixed == rnd.last.a[c] + rnd.last.b[c]
            IN  /\ cfg.fmt = "f32" => rnd.last.out[c] = mixed
                /\ cfg.fmt = "i16" =>
                     rnd.last.out[c] = RoundDiv(Clamp(mixed) * I16Scale, Den)


\* C21: a sample the render thread uses at channel position c of a frame was
\* captured at channel position c.  The k-th sample pushed is the value k and
\* was captured at position (k - 1) mod in_x_channels; the j-th pop is made at
\* position (j - 1) mod in_x_channels of the frame being mixed.
C21_ChannelAlignmentKept ==
    \A x \in DOMAIN hist :
        \A j \in 1..Len(hist[x].popped) :
            hist[x].popped[j].some =>
                (hist[x].popped[j].v - 1) % cfg.in_channels[x]
                    = (j - 1) % cfg.in_channels[x]


\* C23: when the render thread releases the frames it acquired, it has written
\* a mixed value into every sample of every one of them, and has popped each
\* input's Transport for each of them.
C23_AcquiredFramesAllWritten ==
    ENABLED RenderRelease =>
        /\ rnd.written = rnd.frames_avail * cfg.channels
        /\ \A x \in Inputs : rnd.calls[x] >= rnd.frames_avail

\* C29: every frame of a buffer is popped for, in_x_channels times per input;
\* output channel ch takes the input's channel ch if the input has one and its
\* channel 0 otherwise; an input that is not connected contributes silence.
C29_PopsAndChannelMap ==
    /\ ENABLED RenderRelease =>
         \A x \in Inputs : rnd.calls[x] = rnd.frames_avail * cfg.in_channels[x]
    /\ rnd.last.made =>
         \A c \in 1..cfg.channels :
            /\ rnd.last.a[c] = IF c <= cfg.in_channels.a THEN rnd.last.frame_a[c]
                               ELSE rnd.last.frame_a[1]
            /\ rnd.last.b[c] = IF c <= cfg.in_channels.b THEN rnd.last.frame_b[c]
                               ELSE rnd.last.frame_b[1]
            /\ "a" \notin cfg.connected => rnd.last.a[c] = 0
            /\ "b" \notin cfg.connected => rnd.last.b[c] = 0

\* The same, for the output formats the render loop has a branch for
ChannelMapOfHandledFormats ==
    Handled(cfg.fmt) => C29_PopsAndChannelMap


-----------------------------------------------------------------------------
(* Format negotiation *)

\* The FormatInfo the call returned is that of the wave format w
Uses(w) == neg.format = parse_format(w).format

\* C25: an error return of open_device_exclusive or open_device_shared leaves
\* neither the activated audio client nor a created event open.
C25_ErrorReturnsReleaseAll ==
    neg.ret = "Err" => neg.client # "open" /\ neg.event # "open"

AllTurnedDown ==
    /\ neg.mix_answer # NONE /\ ~Accepted(neg.mix_answer)
    /\ Len(neg.asked) = 9
    /\ \A k \in 1..9 : ~neg.answers[k]

C28_SharedUsesMixOrClosest ==
    /\ neg.pc # "idle" => neg.mode = neg.entry.mode
    /\ neg.mode = "Shared" =>
         /\ neg.asked = <<>>
         /\ neg.ret = "Ok" =>
              /\ Accepted(neg.mix_answer)
              /\ Uses(IF neg.mix_answer.hr = "S_OK" THEN dev.mix
                      ELSE neg.mix_answer.closest)
         /\ neg.mix_answer # NONE /\ ~Accepted(neg.mix_answer) =>
              neg.ret = "Err" /\ neg.client = "released"

\* A shared-mode call for a shared entry succeeded with the closest match,
\* 48000 Hz 16-bit integer
C28_Witness ==
    /\ neg.mode = "Shared"
    /\ neg.entry.mode = "Shared"
    /\ neg.ret = "Ok"
    /\ neg.mix_answer.hr = "S_FALSE"
    /\ neg.format.bits_per_sample = 16


-----------------------------------------------------------------------------
(* Failures inside a pipeline thread *)

\* C24: a step of a pipeline thread in which a native call can fail (its
\* GetService, or the buffer calls of a pass) leaves the stop flag, the other
\* threads, their audio clients and every event as they are; and a thread
\* leaves its loop only after it has seen the stop flag set, and returns only
\* from there or from its own failed GetService.
C24_FailureIsLocal ==
    [][\A r \in Roles :
        /\ (ThreadInit(r) \/ ThreadProcess(r)) =>
             /\ stop_flag' = stop_flag
             /\ event' = event
             /\ event_handles' = event_handles
             /\ signaled' = signaled
             /\ \A q \in Roles \ {r} : thr'[q] = thr[q]
             /\ \A h \in Handles : h # Handle(r) => client'[h] = client[h]
        /\ (thr[r].pc # "exit" /\ thr'[r].pc = "exit") => stop_flag
        /\ (Alive(r) /\ thr'[r].pc = "done") =>
             \/ thr[r].pc = "exit"
             \/ thr[r].pc = "init"
      ]_vars

\* Capture thread A has returned because its GetService failed; no stop was
\* requested and the render thread is waiting for its device
C24_Witness ==
    /\ StartReturned
    /\ ~stop_flag
    /\ thr["a"].pc = "done"
    /\ thr["out"].pc = "wait"
    /\ ClientOpen(Handle("out"))


-----------------------------------------------------------------------------
(* The capture thread's pushes *)

\* C22: for every buffer the capture thread drains, silent or not and whatever
\* the input's format, push is called for frames x channels samples.
C22_PushesFramesTimesChannels ==
    \A x \in DOMAIN hist :
        hist[x].made => Len(hist[x].pushed) = hist[x].frames * cfg.in_channels[x]

\* C30: for a buffer flagged silent, push is called for frames x channels
\* samples, every one of them zero, and the buffer's data is not read.
C30_SilentBufferPushesZeros ==
    \A x \in DOMAIN hist :
        hist[x].made /\ hist[x].silent =>
            /\ Len(hist[x].pushed) = hist[x].frames * cfg.in_channels[x]
            /\ \A i \in 1..Len(hist[x].pushed) : hist[x].pushed[i] = 0
            /\ ~hist[x].read

\* A silent buffer of two frames of two channels was drained into Transport A,
\* which holds its four zeros
C30_Witness ==
    /\ "a" \in DOMAIN hist
    /\ hist.a.made /\ hist.a.silent
    /\ hist.a.frames = 2
    /\ cfg.in_channels.a = 2
    /\ rb.a = <<0, 0, 0, 0>>


-----------------------------------------------------------------------------
(* The gates *)

\* C31: a pass over an output buffer works with the values the gates have when
\* the pass begins, whatever was toggled before; every frame of the buffer is
\* mixed with these values: a Transport whose gate is true is heard (its
\* popped samples, silence where it ran dry), one whose gate is false is not.
C31_ToggleHeardFromNextBuffer ==
    [][ /\ (rnd.pc = "idle" /\ rnd'.pc = "mix") => rnd'.use = listen
        /\ (rnd.pc = "mix" /\ rnd'.pc = "mix") => rnd'.use = rnd.use
        /\ (rnd.pc = "mix" /\ rnd'.pc = "mix" /\ rnd'.f = rnd.f + 1) =>
             \A x \in Inputs :
                 LET frame == IF x = "a" THEN rnd'.last.frame_a ELSE rnd'.last.frame_b
                 IN  \A i \in 1..cfg.in_channels[x] :
                        frame[i] = IF rnd.use[x] /\ i <= Len(rb[x]) THEN rb[x][i] ELSE 0
      ]_vars

\* Gate A, created false, was toggled; the buffer begun after that is being
\* mixed with A heard, while gate B is still false
C31_Witness ==
    /\ rnd.pc = "mix"
    /\ rnd.last.made
    /\ rnd.use.a /\ ~rnd.use.b
    /\ rnd.last.a[1] # 0
    /\ rnd.last.out[1] = Convert(cfg.fmt, rnd.last.a[1])


-----------------------------------------------------------------------------
(* Threads and their resources *)

\* C32: a start call that returned Ok has spawned one thread for each device
\* it opened, the output and every selected input, and holds one join handle
\* for each; a thread is spawned only in the place of one that was joined, so
\* that the (at most three) threads on record are all the threads there are.
C32_OneThreadPerDevice ==
    /\ [](StartReturned /\ call.ret = "Ok"
            => /\ call.spawned = call.opened
               /\ call.spawned = call.selected
               /\ "out" \in call.spawned
               /\ Len(threads) = Cardinality(call.spawned)
               /\ \A r \in Roles : r \in call.spawned <=> thr[r].pc # "none"
               /\ \A r \in Roles :
                    r \in call.spawned <=> \E i \in 1..Len(threads) : threads[i] = r)
    /\ [](Cardinality({r \in Roles : Alive(r)}) <= 3)
    /\ [][\A r \in Roles :
            (thr'[r].pc = "init" /\ thr'[r] # thr[r]) => thr[r].pc = "none"]_vars

\* The second start of a behaviour returned Ok after a run of three threads
\* was stopped, and its own three threads are alive
C32_Witness ==
    /\ StartReturned
    /\ call.ret = "Ok"
    /\ call.prev = "start_ok"
    /\ call.spawned = Roles
    /\ \A r \in Roles : Alive(r) /\ thr[r].id = ctl.n
    /\ \E h \in Handles : h[1] = ctl.n - 1 /\ client[h] = "released"


\* C33: only input X's capture thread has pushed to Transport X and only the
\* render thread has popped from it; no end is in two closures or left with
\* the control thread, whose steps leave the Transports alone.
C33_OneThreadPerEnd ==
    /\ [](\A x \in Inputs :
            /\ hist.pushed[x] \subseteq {x}
            /\ hist.popped[x] \subseteq {"out"}
            /\ x \notin cfg.connected => hist.pushed[x] = {}
            /\ Cardinality({t \in Inputs : hist.ends.prod[t] = x}) <= 1
            /\ Cardinality({t \in Roles : x \in hist.ends.cons[t]}) = 1)
    /\ [](hist.ends.control = {})
    /\ [][listen' # listen => rb' = rb /\ hist' = hist]_vars

\* Both capture threads have pushed and the render thread has popped both
\* Transports, with samples left in them
C33_Witness ==
    /\ hist.pushed = [a |-> {"a"}, b |-> {"b"}]
    /\ hist.popped = [a |-> {"out"}, b |-> {"out"}]
    /\ rb.a # <<>> /\ rb.b # <<>>
    /\ listen.a


\* C34: a gate changes only in a step the control thread takes between its
\* start and stop calls; no step of a start or stop call and no step of a
\* pipeline thread changes it.
C34_AudioSideOnlyReadsGates ==
    [][listen' # listen =>
         /\ ctl.pc = "idle" /\ ctl' = ctl
         /\ call' = call
         /\ thr' = thr
         /\ stop_flag' = stop_flag]_vars

\* Gate A was toggled and is true while the three pipeline threads of a run
\* are in their loops
C34_Witness ==
    /\ listen.a /\ ~listen.b
    /\ StartReturned /\ call.ret = "Ok"
    /\ \A r \in Roles : thr[r].pc \in {"check", "call", "wait", "work"}


\* C35: no iteration of the render loop makes a heap allocation.
C35_NoAllocationInLoop ==
    rnd.pc = "mix" => rnd.allocs = {}


\* Starting (1), Running (2), Stopping (3), Stopped (4)
Phase(pc) ==
    CASE pc \in {"init", "start"} -> 1
      [] pc \in {"check", "call", "wait", "work"} -> 2
      [] pc \in {"exit", "stopped", "unserved"} -> 3
      [] OTHER -> 4

\* The calls of a thread that ran, in order, and of one whose GetService failed
Lifetimes == { <<"Start", "Stop", "ReleaseService", "Release">>, <<"Release">> }

IsPrefix(p, q) == Len(p) <= Len(q) /\ p = SubSeq(q, 1, Len(p))

\* C36: a thread's phase never decreases; it leaves Running only from the
\* loop condition with the stop flag set, while a timeout and the end of a
\* pass lead back to the loop condition; it has called Start exactly once when
\* it is Running, and Stop before ReleaseService before Release when it has
\* stopped; a thread that has returned takes no further step.
C36_ForwardOnly ==
    /\ [](\A r \in Roles :
            /\ \E l \in Lifetimes : IsPrefix(hist[r], l)
            /\ Phase(thr[r].pc) = 1 => hist[r] = <<>>
            /\ Phase(thr[r].pc) = 2 => hist[r] = <<"Start">>
            /\ thr[r].pc = "done" => hist[r] \in Lifetimes)
    /\ [][\A r \in Roles :
            /\ Phase(thr'[r].pc) >= Phase(thr[r].pc)
            /\ (Phase(thr[r].pc) = 2 /\ Phase(thr'[r].pc) # 2)
                 => thr[r].pc = "check" /\ stop_flag /\ thr'[r].pc = "exit"
            /\ (thr[r].pc = "wait" /\ thr'[r].pc # "wait") => thr'[r].pc \in {"check", "work"}
            /\ (thr[r].pc = "work" /\ thr'[r].pc # "work") => thr'[r].pc = "check"
            /\ (Phase(thr[r].pc) = 1 /\ Phase(thr'[r].pc) = 4) => hist'[r] = <<"Release">>
            /\ Phase(thr[r].pc) = 4 => hist'[r] = hist[r]
         ]_vars

\* stop has returned: the capture thread of input A ran, timed out or worked,
\* saw the flag and went through its exit path, while the render thread's
\* GetService had failed
C36_Witness ==
    /\ StopReturned
    /\ hist.a = <<"Start", "Stop", "ReleaseService", "Release">>
    /\ hist.out = <<"Release">>
    /\ client[<<1, "a">>] = "released"


\* C37: no audio client is released twice and no event is closed twice; the
\* audio client of a thread that has not returned is open, and a handle that
\* was released or closed is not touched again.
C37_ReleasedAtMostOnce ==
    /\ [](\A h \in Handles :
            /\ client[h] # "twice"
            /\ event[h] # "twice"
            /\ (Alive(h[2]) /\ thr[h[2]].id = h[1]) => client[h] = "thread")
    /\ [][\A h \in Handles :
            /\ client[h] = "released" => client'[h] \in {"released", "none"}
            /\ event[h] = "closed" => event'[h] \in {"closed", "none"}]_vars

\* The second start of a behaviour failed on a rate mismatch and released its
\* output client, after the run of the first start was stopped by it: every
\* thread of that run had released its client and every event was closed
C37_Witness ==
    /\ StartReturned
    /\ call.ret \in MismatchErrors
    /\ call.prev = "start_ok"
    /\ client[<<ctl.n, "out">>] = "released"
    /\ \A r \in Roles : client[<<ctl.n - 1, r>>] = "released"
                        /\ event[<<ctl.n - 1, r>>] = "closed"


-----------------------------------------------------------------------------
(* The cpal backend *)

\* The suffix of an entry's name
SuffixOf(entry) == IF entry.mode = "Shared" THEN SharedSuffix ELSE ExclusiveSuffix

\* C38: while start works with the ordinals it was given, every ordinal that
\* is a position of the catalog is mapped to the device the entry at that
\* position is named after.
C38_OrdinalResolvesToNamedDevice ==
    cpal.pc \in {"in_a", "in_b", "out"} =>
        \A r \in Roles :
            cpal.sel[r] \in 0..(Len(listing.entries) - 1) =>
                LET got == devices_get(cpal.devices, cpal.idx[r])
                    entry == listing.entries[cpal.sel[r] + 1]
                IN  /\ got.some
                    /\ entry.name = cpal_name(got.device) \o SuffixOf(entry)

\* C39: when start has returned an error, active_streams is empty.
C39_FailedStartLeavesNoStream ==
    (cpal.pc = "idle" /\ cpal.op = "start" /\ cpal.ret # "Ok")
        => cpal.active_streams = <<>>

====
